---- MODULE Spec2Model ----
(***************************************************************************)
(* Coordination core of the BLEDOM controller agent: the orchestrator      *)
(* (internal/agent/agent.go), the Lua engine's dispatcher and script       *)
(* goroutines (internal/lua/engine.go), the State Store                    *)
(* (internal/core/state.go), the event bus and the BLE supervisor's        *)
(* link events (internal/ble/bledom.go).                                   *)
(*                                                                         *)
(* busLog, pushed, handled, stopCalls and stopsDropped are history         *)
(* variables: they record what was published, pushed, handled and          *)
(* dropped, and no action reads them to decide what to do.                 *)
(***************************************************************************)
EXTENDS Integers, Sequences, FiniteSets, TLC

\* ------------------------------------------------------------------ bounds
\* Commands the transports push in one run.
MaxCmds == 3
\* Capacity of the orchestrator's command channel as modelled (20 in the code).
CommandChanCap == 2
\* Capacity of Engine.cmdChan as modelled (10 in the code).
EngineChanCap == 1
\* Capacity of a subscriber's buffer as modelled (100 in the code).
SubCap == 3
\* Connection sessions the BLE supervisor opens in one run.
MaxSessions == 2
\* Pattern commands pushed in one run of LinkSpec.
MaxLinkCmds == 2
\* ble.rateBurst: the capacity of the token bucket
RateBurst == 1
\* ble.rateLimit: tokens per second; the clock ticks once per token period
RateLimit == 2
\* calls of Controller.Write made by scripts
MaxWrites == 4
\* clock ticks
MaxTime == 2
\* colour writers of the State Store taking the lock
MaxColorWrites == 3
\* snapshots taken by State.Clone
MaxClones == 2
\* ids the cron evaluator hands out in one process
MaxEntries == 2
\* calls of the scheduler, fired entries and loads
MaxSchedSteps == 4

\* Commands pushed while WebSocket clients connect.
MaxHubCmds == 2
\* Messages the MQTT bridge handles on the colour topic.
MaxMqtt == 2

\* ------------------------------------------------------------------ inputs
PatternNames == {"a.lua", "b.lua"}
Colors == {<<0, 0, 0>>, <<255, 0, 0>>}
\* The colours written concurrently to the State Store.
StoreColors == {<<10, 20, 30>>, <<255, 0, 0>>}
ScanRSSI == -60

CmdSetPower           == "setPower"
CmdSetColor           == "setColor"
CmdSetBrightness      == "setBrightness"
CmdSetSpeed           == "setSpeed"
CmdSetHardwarePattern == "setHardwarePattern"
CmdRunPattern         == "runPattern"
CmdStopPattern        == "stopPattern"
CmdAddSchedule        == "addSchedule"
CmdRemoveSchedule     == "removeSchedule"
CmdGetPatternCode     == "getPatternCode"
CmdSavePatternCode    == "savePatternCode"
CmdDeletePattern      == "deletePattern"

StateChangedEvent    == "StateChanged"
DeviceConnectedEvent == "DeviceConnected"
PatternChangedEvent  == "PatternChanged"
PowerChangedEvent    == "PowerChanged"
ColorChangedEvent    == "ColorChanged"

\* engineCmd kinds
cmdRunFile == "cmdRunFile"
cmdStop    == "cmdStop"
cmdRunString == "cmdRunString"

\* The commands a transport can push: a type and a payload map.
CommandInputs ==
    {[Type |-> CmdSetPower, Payload |-> [isOn |-> b]] : b \in BOOLEAN}
    \cup {[Type |-> CmdSetColor, Payload |-> [r |-> c[1], g |-> c[2], b |-> c[3]]] : c \in Colors}
    \cup {[Type |-> CmdSetBrightness, Payload |-> [value |-> 40]]}
    \cup {[Type |-> CmdSetSpeed, Payload |-> [value |-> 70]]}
    \cup {[Type |-> CmdSetHardwarePattern, Payload |-> [id |-> 3]]}
    \cup {[Type |-> CmdRunPattern, Payload |-> [name |-> n]] : n \in PatternNames}
    \cup {[Type |-> CmdStopPattern, Payload |-> <<>>]}

\* A kind no case of handleCommand matches.
CmdUnknown == "reboot"

\* Commands a transport forwards without validation (Server.handleWebSocket
\* unmarshals any JSON object into core.Command).  A field whose JSON value has
\* another type than the handler's type assertion expects is written under the
\* key "<name>:<type>", so that the assertion on "<name>" finds nothing, which is
\* what `cmd.Payload[name].(T)` yields for it.
InvalidInputs ==
    {[Type |-> CmdSetPower, Payload |-> <<>>],
     [Type |-> CmdSetPower, Payload |-> ("isOn:string" :> "yes")],
     [Type |-> CmdSetColor, Payload |-> [g |-> 0, b |-> 0]],
     [Type |-> CmdSetColor, Payload |-> [r |-> 256, g |-> 0, b |-> 0]],
     [Type |-> CmdSetBrightness, Payload |-> [value |-> 500]],
     [Type |-> CmdSetBrightness, Payload |-> [value |-> 0]],
     [Type |-> CmdSetBrightness, Payload |-> ("value:string" :> "40")],
     [Type |-> CmdSetSpeed, Payload |-> [value |-> 101]],
     [Type |-> CmdSetSpeed, Payload |-> <<>>]}

\* Commands of a kind outside the closed set, with and without a payload.
UnknownInputs ==
    {[Type |-> CmdUnknown, Payload |-> <<>>],
     [Type |-> CmdUnknown, Payload |-> [value |-> 1]]}

\* The commands of the closed set, the invalid ones and the unknown ones.
InputCommands == CommandInputs \cup InvalidInputs \cup UnknownInputs

\* Cron expressions: one the cron parser accepts and one it rejects.
CronSpecs == {"0 8 * * *", "every morning"}

\* Command texts of schedules, as the sequence of their words and of the blanks
\* between them.
CommandTexts ==
    {<<"power", " ", "on">>,
     <<"power", " ", "off">>,
     <<"power">>,
     <<"power", " ", "toggle">>,
     <<"pattern", " ", "a.lua">>,
     <<"lua", " ", "set_color(1,", "  ", "2)">>,
     <<"reboot">>,
     <<>>}

\* The schedules file does not exist.
NoFile == [exists |-> FALSE, data |-> <<>>]

\* The WebSocket connections.
ClientIds == {"c1", "c2"}

\* core.NewState()
NewState == [IsConnected |-> FALSE, RSSI |-> 0, Power |-> FALSE,
             ColorR |-> 0, ColorG |-> 0, ColorB |-> 0,
             Brightness |-> 0, Speed |-> 0, RunningPattern |-> ""]

\* No message is held.
NoMessage == [Type |-> "", Payload |-> <<>>, idx |-> 0]

\* Hub.Run waits in its select.
IdleHub == [pc |-> "select", msg |-> NoMessage, todo |-> {}]

\* A connection that has not been upgraded yet.
NewSocket == [pc |-> "new", st |-> NewState, snap |-> 0, received |-> <<>>, failed |-> FALSE]

\* The writer loop holds no payload.
NoFrame == <<>>

\* The goroutines that call State.SetColor: handleCommand and syncState.
ColorSetterIds == {"orchestrator", "listener"}

\* A goroutine outside State.SetColor / outside State.Clone.
IdleSetter == [pc |-> "idle", r |-> 0, g |-> 0, b |-> 0]
IdleCloner == [pc |-> "idle", r |-> 0, g |-> 0, b |-> 0]

VARIABLES
    state,            \* core.State: the State Store
    bleState,         \* ble.Controller.state
    commandChannel,   \* Agent.commandChannel
    cmdChan,          \* Engine.cmdChan
    runLoop,          \* Engine.runLoop: its position, the command in hand, currentCancel
    scripts,          \* the script goroutines spawned so far, by id
    agentSub,         \* the subscriber channel of Agent.listenEvents
    blePc,            \* position of Controller.Run
    sessions,         \* connection sessions opened so far
    ctxDone,          \* the root context is cancelled
    orchestrator,     \* the command loop of Agent.Run is still running
    listener,         \* Agent.listenEvents is still running
    busLog,           \* history: every event published on the bus, in order
    pushed,           \* history: every command sent on commandChannel, in order
    handled,          \* history: every command passed to handleCommand, in order
    stopCalls,        \* history: calls of Engine.StopCurrentPattern
    stopsDropped,     \* history: calls of StopCurrentPattern that found cmdChan full
    serverSub,        \* the subscriber channel of Server.listenEvents
    bleCommandChan,   \* Controller.commandChan: the write queue
    writeLog,         \* history: the payload of every call of Controller.Write, in order
    characteristic,   \* Controller.characteristic: 0 when empty, else the session it belongs to
    prevCharacteristic, \* the value characteristic had before its last assignment
    heartbeatChar,    \* Controller.heartbeatChar: 0 when empty, else its session
    disconnectChan,   \* Controller.disconnectChan: signals pending (capacity 1)
    signalOf,         \* history: the session of the characteristic whose failure raised the signal
    lateChar,         \* a discovery goroutine outliving its timeout: the handle it will store
    writer,           \* Controller.commandWriterLoop: its position and the payload in hand
    tokens,           \* the tokens of bleCommandLimiter
    now,              \* the clock, in token periods
    written,          \* history: the frames written to the characteristic, with their time
    storeMu,          \* State.mu: the goroutine holding the write lock, the readers
    colorSetters,     \* the goroutines inside State.SetColor: position and arguments
    cloner,           \* a goroutine inside State.Clone: position and the copy so far
    snapshots,        \* history: the colour triples returned by State.Clone
    colorWrites,      \* history: the colour triples passed to State.SetColor
    cronEntries,      \* cron.Cron: the registered entries, by id
    cronNext,         \* cron.Cron.nextID
    store,            \* Scheduler.store
    schedulesFile,    \* the schedules file on disk
    pendingRuns,      \* engine commands of goroutines spawned by Scheduler.execute
    schedLog,         \* history: the calls of Add and Remove, the fired entries, the loads
    hub,              \* Hub.Run: its position, the message it broadcasts, the clients still to write
    hubClients,       \* Hub.clients
    sockets,          \* Server.handleWebSocket per connection: position, snapshot, messages received
    serverHand,       \* the message Server.listenEvents holds for Hub.Broadcast
    pendingBroadcast, \* the message handleCommand holds for Hub.Broadcast
    hubLog,           \* history: the messages the hub has finished broadcasting
    patternFiles,     \* the files of the patterns directory
    fileOps,          \* history: the operations on pattern files, with the path used
    mqttLog           \* history: the payloads received on <prefix>/color/set

\* Controller.commandChan and its history
queueVars == <<bleCommandChan, writeLog>>

\* what Controller.Run and the discovery goroutine assign
linkVars == <<characteristic, prevCharacteristic, heartbeatChar, disconnectChan, signalOf,
              lateChar>>

\* the writer loop, its limiter and the clock
limiterVars == <<writer, tokens, now, written>>

\* the rest of the BLE controller's write path
writerVars == <<linkVars, limiterVars>>

\* the goroutines inside the State Store's methods
storeVars == <<storeMu, colorSetters, cloner, snapshots, colorWrites>>

\* the scheduler: the cron evaluator's entries and id counter, the store, the
\* schedules file, the engine calls of goroutines it spawned, and its history
schedVars == <<cronEntries, cronNext, store, schedulesFile, pendingRuns, schedLog>>

\* the WebSocket side: the hub's loop and clients, the connections being served,
\* the message the server's listener and the orchestrator hold for the hub, and
\* the history of finished broadcasts
hubVars == <<hub, hubClients, sockets, serverHand, pendingBroadcast, hubLog>>

\* the patterns directory and the history of the paths used on it
fileVars == <<patternFiles, fileOps>>

vars == <<state, bleState, commandChannel, cmdChan, runLoop, scripts, agentSub,
          blePc, sessions, ctxDone, orchestrator, listener, busLog, pushed,
          handled, stopCalls, stopsDropped, serverSub, queueVars, writerVars,
          storeVars, schedVars, hubVars, fileVars, mqttLog>>

\* ------------------------------------------------------------------ helpers
HexDigits == <<"0", "1", "2", "3", "4", "5", "6", "7", "8", "9", "A", "B", "C", "D", "E", "F">>

\* fmt.Sprintf("%02X", n) for n in 0..4095: two digits at least, three when
\* n needs them
Hex2(n) ==
    (IF n < 256 THEN "" ELSE HexDigits[(n \div 256) + 1])
    \o HexDigits[((n % 256) \div 16) + 1] \o HexDigits[(n % 16) + 1]

\* fmt.Sprintf("#%02X%02X%02X", r, g, b)
HexColor(r, g, b) == "#" \o Hex2(r) \o Hex2(g) \o Hex2(b)

\* payload[key].(T) with the handler's default when the key is missing
PayloadGet(payload, key, default) ==
    IF key \in DOMAIN payload THEN payload[key] ELSE default

\* ------------------------------------------------------------------ event bus
\* A delivery that makes room in a full buffer by discarding its oldest event.
Deliver_DropOldest(sub, event) ==
    IF Len(sub) < SubCap THEN Append(sub, event) ELSE Append(Tail(sub), event)

\* EventBus.Publish towards one subscriber buffer: delivered unless it is full.
Deliver(sub, event) ==
    IF Len(sub) < SubCap THEN Append(sub, event) ELSE sub

\* The agent's listener subscribes to DeviceConnected and PatternChanged only.
AgentSubscribed(event) == event.Type \in {DeviceConnectedEvent, PatternChangedEvent}

\* The event as it goes on the bus; idx is history, its position in busLog, and
\* no subscriber reads it.
Stamp(event) == [Type |-> event.Type, Payload |-> event.Payload, idx |-> Len(busLog) + 1]

\* The server's listener subscribes to the five kinds of event.
ServerSubscribed(event) ==
    event.Type \in {StateChangedEvent, DeviceConnectedEvent, PatternChangedEvent,
                    PowerChangedEvent, ColorChangedEvent}

\* EventBus.Publish: one non-blocking send per subscriber of the event's type
Publish(event) ==
    /\ busLog' = Append(busLog, Stamp(event))
    /\ agentSub' = IF AgentSubscribed(event) THEN Deliver(agentSub, Stamp(event))
                   ELSE agentSub
    /\ serverSub' = IF ServerSubscribed(event) THEN Deliver(serverSub, Stamp(event))
                    ELSE serverSub

PatternEvent(name) == [Type |-> PatternChangedEvent, Payload |-> [pattern |-> name]]

ConnectionEvent(connected, rssi) ==
    [Type |-> DeviceConnectedEvent, Payload |-> [connected |-> connected, rssi |-> rssi]]

\* ------------------------------------------------------------------ state
Init ==
    /\ state = NewState
    /\ bleState = [IsOn |-> FALSE, R |-> 255, G |-> 255, B |-> 255,
                   Brightness |-> 100, Speed |-> 50]
    /\ commandChannel = <<>>
    /\ cmdChan = <<>>
    /\ runLoop = [pc |-> "recv", cmd |-> [kind |-> cmdStop, name |-> ""], currentCancel |-> 0]
    /\ scripts = <<>>
    /\ agentSub = <<>>
    /\ blePc = "start"
    /\ sessions = 0
    /\ ctxDone = FALSE
    /\ orchestrator = TRUE
    /\ listener = TRUE
    /\ busLog = <<>>
    /\ pushed = <<>>
    /\ handled = <<>>
    /\ stopCalls = 0
    /\ stopsDropped = 0
    /\ serverSub = <<>>
    /\ bleCommandChan = <<>>
    /\ writeLog = <<>>
    /\ characteristic = 0
    /\ prevCharacteristic = 0
    /\ heartbeatChar = 0
    /\ disconnectChan = 0
    /\ signalOf = 0
    /\ lateChar = 0
    /\ writer = [pc |-> "recv", payload |-> NoFrame]
    /\ tokens = RateBurst
    /\ now = 0
    /\ written = <<>>
    /\ storeMu = [writer |-> "", readers |-> 0]
    /\ colorSetters = [p \in ColorSetterIds |-> IdleSetter]
    /\ cloner = IdleCloner
    /\ snapshots = <<>>
    /\ colorWrites = <<>>
    /\ cronEntries = <<>>
    /\ cronNext = 0
    /\ store = <<>>
    /\ schedulesFile = NoFile
    /\ pendingRuns = <<>>
    /\ schedLog = <<>>
    /\ hub = IdleHub
    /\ hubClients = {}
    /\ sockets = [c \in ClientIds |-> NewSocket]
    /\ serverHand = NoMessage
    /\ pendingBroadcast = NoMessage
    /\ hubLog = <<>>
    /\ patternFiles = PatternNames
    /\ fileOps = <<>>
    /\ mqttLog = <<>>

\* ------------------------------------------------------------------ transports
\* A transport that drops the command when the channel is full instead of blocking.
TransportPush_Dropping(cmd) ==
    /\ Len(pushed) < MaxCmds
    /\ commandChannel' = IF Len(commandChannel) < CommandChanCap
                         THEN Append(commandChannel, cmd)
                         ELSE commandChannel
    /\ pushed' = Append(pushed, cmd)
    /\ UNCHANGED <<state, bleState, cmdChan, runLoop, scripts, agentSub, serverSub, blePc,
                   sessions, ctxDone, orchestrator, listener, queueVars, writerVars, storeVars, schedVars, hubVars, fileVars, mqttLog, busLog, handled,
                   stopCalls, stopsDropped>>

\* Server.handleWebSocket / mqtt.Client handlers: `commandChannel <- cmd` blocks
\* while the channel is full.
TransportPush(cmd) ==
    /\ Len(pushed) < MaxCmds
    /\ Len(commandChannel) < CommandChanCap
    /\ commandChannel' = Append(commandChannel, cmd)
    /\ pushed' = Append(pushed, cmd)
    /\ UNCHANGED <<state, bleState, cmdChan, runLoop, scripts, agentSub, serverSub, blePc,
                   sessions, ctxDone, orchestrator, listener, queueVars, writerVars, storeVars, schedVars, hubVars, fileVars, mqttLog, busLog, handled,
                   stopCalls, stopsDropped>>

\* ------------------------------------------------------------------ Lua engine
StopCmd == [kind |-> cmdStop, name |-> ""]

\* Engine.StopCurrentPattern: a non-blocking send; the stop is logged and lost
\* when cmdChan is full.
StopCurrentPattern(ch) ==
    IF Len(ch) < EngineChanCap THEN Append(ch, StopCmd) ELSE ch

StopDropped(ch) == IF Len(ch) < EngineChanCap THEN 0 ELSE 1

\* sanitizeFilename: the names of PatternNames end in .lua and are base names.
\* The names a command can carry for a pattern: the files of the directory, and
\* names with a directory part, without the extension, with `..`, and empty.
Names == PatternNames \cup {"../a.lua", "sub/b.lua", "a.txt", ".lua", "a..lua",
                            "sub/.lua", ""}

\* The characters of a name.
Chars(name) ==
    CASE name = "a.lua" -> <<"a", ".", "l", "u", "a">>
      [] name = "b.lua" -> <<"b", ".", "l", "u", "a">>
      [] name = "../a.lua" -> <<".", ".", "/", "a", ".", "l", "u", "a">>
      [] name = "sub/b.lua" -> <<"s", "u", "b", "/", "b", ".", "l", "u", "a">>
      [] name = "a.txt" -> <<"a", ".", "t", "x", "t">>
      [] name = ".lua" -> <<".", "l", "u", "a">>
      [] name = "a..lua" -> <<"a", ".", ".", "l", "u", "a">>
      [] name = "sub/.lua" -> <<"s", "u", "b", "/", ".", "l", "u", "a">>
      [] name = "patterns" -> <<"p", "a", "t", "t", "e", "r", "n", "s">>
      [] name = "" -> <<>>

\* The name these characters spell.
Text(chars) == CHOOSE name \in Names : Chars(name) = chars

\* strings.HasSuffix
HasSuffix(str, suffix) ==
    /\ Len(str) >= Len(suffix)
    /\ SubSeq(str, Len(str) - Len(suffix) + 1, Len(str)) = suffix

\* strings.HasPrefix
HasPrefix(str, prefix) ==
    Len(str) >= Len(prefix) /\ SubSeq(str, 1, Len(prefix)) = prefix

\* strings.Contains
Contains(str, sub) ==
    \E i \in 1..(Len(str) - Len(sub) + 1) : SubSeq(str, i, i + Len(sub) - 1) = sub

\* filepath.Base: the last element of the path, trailing separators removed
RECURSIVE Base(_)
Base(path) ==
    IF path = <<>> THEN <<".">>
    ELSE IF path[Len(path)] = "/"
         THEN IF Len(path) = 1 THEN <<"/">> ELSE Base(SubSeq(path, 1, Len(path) - 1))
    ELSE LET slashes == {i \in 1..Len(path) : path[i] = "/"}
             last == IF slashes = {} THEN 0
                     ELSE CHOOSE i \in slashes : \A j \in slashes : j <= i
         IN SubSeq(path, last + 1, Len(path))

\* sanitizeFilename: the clean name, or an error
sanitizeFilename(name) ==
    IF ~HasSuffix(Chars(name), Chars(".lua"))
    THEN [ok |-> FALSE, cleanName |-> <<>>]
    ELSE LET cleanName == Base(Chars(name))
         IN IF cleanName = <<>> \/ cleanName = Chars(".lua")
               \/ Contains(cleanName, <<".", ".">>)
            THEN [ok |-> FALSE, cleanName |-> <<>>]
            ELSE [ok |-> TRUE, cleanName |-> cleanName]

\* Engine.patternsDir
PatternsDir == Chars("patterns")

\* Engine.GetPatternPath: filepath.Join(e.patternsDir, cleanName), or the error
GetPatternPath(name) ==
    LET clean == sanitizeFilename(name)
    IN [ok |-> clean.ok,
        path |-> IF clean.ok THEN PatternsDir \o <<"/">> \o clean.cleanName ELSE <<>>]

\* The file of the patterns directory a path built by GetPatternPath names.
FileOf(path) == Text(SubSeq(path, Len(PatternsDir) + 2, Len(path)))

\* Engine.GetPatternPath returns no error for the name.
SanitizeOk(name) == GetPatternPath(name).ok

\* The command Engine.RunPattern sends for the name.
RunFile(name) == [kind |-> cmdRunFile, name |-> name, code |-> GetPatternPath(name).path]

\* Commands whose handler notifies the WebSocket clients.
NotifyInputs ==
    {[Type |-> CmdAddSchedule,
      Payload |-> [spec |-> "0 8 * * *", command |-> <<"power", " ", "on">>]],
     [Type |-> CmdRemoveSchedule, Payload |-> [id |-> "1"]],
     [Type |-> CmdRemoveSchedule, Payload |-> [id |-> "x"]],
     [Type |-> CmdGetPatternCode, Payload |-> [name |-> "a.lua"]],
     [Type |-> CmdSavePatternCode, Payload |-> [name |-> "b.lua", code |-> "x"]],
     [Type |-> CmdDeletePattern, Payload |-> [name |-> "a.lua"]]}

\* Commands that name a pattern file, with every name of Names.
FileInputs ==
    {[Type |-> k, Payload |-> [name |-> n]] :
        k \in {CmdRunPattern, CmdGetPatternCode, CmdDeletePattern}, n \in Names}
    \cup {[Type |-> CmdSavePatternCode, Payload |-> [name |-> n, code |-> "x"]] : n \in Names}

\* Payloads published on <prefix>/color/set, as their characters, each with
\* the form it is written in and the colour it states: #RRGGBB with and without
\* the #, r,g,b with and without blanks, the JSON object, and payloads in none
\* of the forms.
ColorPayloads ==
    {[text |-> <<"#", "F", "F", "0", "0", "0", "0">>,
      form |-> "hex", color |-> <<255, 0, 0>>],
     [text |-> <<"0", "0", "f", "f", "0", "0">>,
      form |-> "hex", color |-> <<0, 255, 0>>],
     [text |-> <<"2", "5", "5", ",", "0", ",", "0">>,
      form |-> "rgb", color |-> <<255, 0, 0>>],
     [text |-> <<"0", ",", " ", "2", "5", "5", ",", "0">>,
      form |-> "rgb", color |-> <<0, 255, 0>>],
     [text |-> <<"{", "\"", "r", "\"", ":", "2", "5", "5", ",", "\"", "g", "\"", ":", "0", ",", "\"", "b", "\"", ":", "0", "}">>,
      form |-> "json", color |-> <<255, 0, 0>>],
     [text |-> <<"r", "e", "d">>,
      form |-> "none", color |-> <<0, 0, 0>>],
     [text |-> <<"1", ",", "2">>,
      form |-> "none", color |-> <<0, 0, 0>>],
     [text |-> <<"x", ",", "y", ",", "z">>,
      form |-> "none", color |-> <<0, 0, 0>>],
     [text |-> <<"#", "G", "G", "0", "0", "0", "0">>,
      form |-> "none", color |-> <<0, 0, 0>>],
     [text |-> <<"#", "F", "F", "0", "0">>,
      form |-> "none", color |-> <<0, 0, 0>>]}

\* The set-color command of the MQTT bridge.
ColorCommand(r, g, b) == [Type |-> CmdSetColor, Payload |-> [r |-> r, g |-> g, b |-> b]]

\* The set-color commands the MQTT bridge can send for these payloads.
MqttCommands == {ColorCommand(c[1], c[2], c[3]) : c \in {<<255, 0, 0>>, <<0, 255, 0>>, <<0, 0, 0>>}}

\* Every command the orchestrator can receive.
Commands == InputCommands \cup NotifyInputs \cup FileInputs \cup MqttCommands

\* Engine.RunPattern: a blocking send of cmdRunFile, nothing on a bad name.
RunPatternBlocks(ch, name) == SanitizeOk(name) /\ Len(ch) >= EngineChanCap

RunPattern(ch, name) ==
    IF SanitizeOk(name) THEN Append(ch, RunFile(name)) ELSE ch

\* context cancel of script id
Cancel(scr, id) == [scr EXCEPT ![id].cancelled = TRUE]

\* Engine.runLoop after the wait: a stop goes back to the receive, a run command
\* spawns a goroutine bound to a fresh context.
Dispatch(cmd, scr) ==
    IF cmd.kind = cmdStop
    THEN /\ scripts' = scr
         /\ runLoop' = [pc |-> "recv", cmd |-> StopCmd, currentCancel |-> 0]
    ELSE /\ scripts' = Append(scr, [name |-> cmd.name, kind |-> cmd.kind, code |-> cmd.code,
                                     status |-> "spawned", failed |-> FALSE,
                                     lastWrite |-> 0,
                                     cancelled |-> FALSE, startIdx |-> 0, endIdx |-> 0])
         /\ runLoop' = [pc |-> "recv", cmd |-> StopCmd, currentCancel |-> Len(scr) + 1]

\* Engine.runLoop: receive a command; cancel the current script and wait for it.
RunLoopRecv ==
    /\ runLoop.pc = "recv"
    /\ cmdChan # <<>>
    /\ cmdChan' = Tail(cmdChan)
    /\ IF runLoop.currentCancel # 0
       THEN /\ scripts' = Cancel(scripts, runLoop.currentCancel)
            /\ runLoop' = [runLoop EXCEPT !.pc = "wait", !.cmd = Head(cmdChan)]
       ELSE Dispatch(Head(cmdChan), scripts)
    /\ UNCHANGED <<state, bleState, commandChannel, agentSub, serverSub, blePc, sessions, ctxDone,
                   orchestrator, listener, queueVars, writerVars, storeVars, schedVars, hubVars, fileVars, mqttLog, busLog, pushed, handled, stopCalls, stopsDropped>>

\* Engine.runLoop: `case <-scriptDone`
RunLoopScriptDone ==
    /\ runLoop.pc = "wait"
    /\ scripts[runLoop.currentCancel].status = "done"
    /\ Dispatch(runLoop.cmd, scripts)
    /\ UNCHANGED <<state, bleState, commandChannel, cmdChan, agentSub, serverSub, blePc, sessions,
                   ctxDone, orchestrator, listener, queueVars, writerVars, storeVars, schedVars, hubVars, fileVars, mqttLog, busLog, pushed, handled, stopCalls, stopsDropped>>

\* Engine.runLoop: `case <-time.After(2 * time.Second)`: the script has not closed
\* scriptDone in time and is abandoned.
RunLoopTimeout ==
    /\ runLoop.pc = "wait"
    /\ scripts[runLoop.currentCancel].status # "done"
    /\ Dispatch(runLoop.cmd, scripts)
    /\ UNCHANGED <<state, bleState, commandChannel, cmdChan, agentSub, serverSub, blePc, sessions,
                   ctxDone, orchestrator, listener, queueVars, writerVars, storeVars, schedVars, hubVars, fileVars, mqttLog, busLog, pushed, handled, stopCalls, stopsDropped>>

\* Engine.execute, first half: the start event, published before the executor
\* runs; L.DoFile fails at once when the file is not there.
ScriptStart(id) ==
    /\ scripts[id].status = "spawned"
    /\ Publish(PatternEvent(scripts[id].name))
    /\ scripts' = [scripts EXCEPT ![id].status = "running",
                                  ![id].failed = /\ scripts[id].kind = cmdRunFile
                                                 /\ FileOf(scripts[id].code) \notin patternFiles,
                                  ![id].startIdx = Len(busLog) + 1]
    /\ UNCHANGED <<state, bleState, commandChannel, cmdChan, runLoop, blePc, sessions,
                   ctxDone, orchestrator, listener, queueVars, writerVars, storeVars, schedVars, hubVars, fileVars, mqttLog, pushed, handled, stopCalls, stopsDropped>>

\* Engine.execute, the deferred function, then close(done).
ScriptExit(id) ==
    /\ Publish(PatternEvent(""))
    /\ scripts' = [scripts EXCEPT ![id].status = "done",
                                  ![id].endIdx = Len(busLog) + 1]
    /\ UNCHANGED <<state, bleState, commandChannel, cmdChan, runLoop, blePc, sessions,
                   ctxDone, orchestrator, listener, queueVars, writerVars, storeVars, schedVars, hubVars, fileVars, mqttLog, pushed, handled, stopCalls, stopsDropped>>

\* An executor that does not return when the script raised an error.
ScriptFinish_NotOnError(id) ==
    /\ scripts[id].status = "running"
    /\ ~scripts[id].cancelled
    /\ ~scripts[id].failed
    /\ ScriptExit(id)

\* The executor returns by itself: the script completed or raised an error.
ScriptFinish(id) ==
    /\ scripts[id].status = "running"
    /\ ~scripts[id].cancelled
    /\ ScriptExit(id)

\* The executor returns because the script observed its cancelled context.
ScriptCancelled(id) ==
    /\ scripts[id].status = "running"
    /\ scripts[id].cancelled
    /\ ScriptExit(id)

\* ------------------------------------------------------------------ State Store
\* A SetConnection that starts from a fresh State.
SetConnection_Reset(st, connected, rssi) ==
    [NewState EXCEPT !.IsConnected = connected, !.RSSI = rssi]

\* State.SetConnection
SetConnection(st, connected, rssi) == [st EXCEPT !.IsConnected = connected, !.RSSI = rssi]
SetPower(st, power) == [st EXCEPT !.Power = power]
SetColor(st, r, g, b) == [st EXCEPT !.ColorR = r, !.ColorG = g, !.ColorB = b]
SetBrightness(st, brightness) == [st EXCEPT !.Brightness = brightness]
SetSpeed(st, speed) == [st EXCEPT !.Speed = speed]
SetRunningPattern(st, pattern) == [st EXCEPT !.RunningPattern = pattern]

\* ------------------------------------------------------------------ BLE controller
\* The command builders of ble.Controller record the commanded value in
\* Controller.state (read back by GetState).
BleSetPower(bs, isOn) == [bs EXCEPT !.IsOn = isOn]
BleSetColor(bs, r, g, b) == [bs EXCEPT !.R = r, !.G = g, !.B = b]
BleSetBrightness(bs, v) == [bs EXCEPT !.Brightness = v]
BleSetSpeed(bs, v) == [bs EXCEPT !.Speed = v]

\* The frames the command builders enqueue.
PowerFrame(isOn) ==
    LET vv == IF isOn THEN 1 ELSE 0 IN <<126, 4, 4, vv, 0, vv, 255, 0, 239>>
ColorFrame(r, g, b) == <<126, 7, 5, 3, r, g, b, 16, 239>>
BrightnessFrame(v) == <<126, 4, 1, v, 255, 255, 255, 0, 239>>
SpeedFrame(v) == <<126, 4, 2, v, 255, 255, 255, 0, 239>>
HardwarePatternFrame(id) == <<126, 5, 3, id + 128, 3, 255, 255, 0, 239>>

\* The frames a running script enqueues through its bindings.
ScriptFrames == {ColorFrame(c[1], c[2], c[3]) : c \in Colors}

\* make(chan []byte, commandRateLimitBurst*2)
WriteQueueCap == RateBurst * 2

\* A Controller.Write that makes room by discarding the oldest queued frame.
Write_DropOldest(q, payload) ==
    IF Len(q) < WriteQueueCap
    THEN Append(q, [payload |-> payload, seq |-> Len(writeLog) + 1])
    ELSE Append(Tail(q), [payload |-> payload, seq |-> Len(writeLog) + 1])

\* Controller.Write: a non-blocking send; the frame is logged and dropped when
\* the queue is full.  seq is history: the number of the call.
Write(q, payload) ==
    IF Len(q) < WriteQueueCap
    THEN Append(q, [payload |-> payload, seq |-> Len(writeLog) + 1])
    ELSE q

\* A call of Controller.Write
ControllerWrite(payload) ==
    /\ bleCommandChan' = Write(bleCommandChan, payload)
    /\ writeLog' = Append(writeLog, payload)

\* ------------------------------------------------------------------ orchestrator
\* Agent.Run: `case cmd := <-a.commandChannel`
Receive(cmd) ==
    /\ orchestrator
    /\ pendingBroadcast = NoMessage
    /\ commandChannel # <<>>
    /\ cmd = Head(commandChannel)
    /\ commandChannel' = Tail(commandChannel)
    /\ handled' = Append(handled, cmd)

\* A set-power that stops the pattern whatever the current power.
PowerStops_Always(currentState, isOn) == TRUE

\* handleCommand, case CmdSetPower: stop the pattern when the power changes.
PowerStops(currentState, isOn) == currentState.Power # isOn

\* handleCommand, case CmdSetColor: stop the pattern when the colour changes.
ColorStops(currentState, r, g, b) ==
    ~(currentState.ColorR = r /\ currentState.ColorG = g /\ currentState.ColorB = b)

HandleSetPower ==
    \E cmd \in Commands :
        /\ Receive(cmd)
        /\ cmd.Type = CmdSetPower
        /\ LET isOn == PayloadGet(cmd.Payload, "isOn", FALSE)
               stops == PowerStops(state, isOn)
           IN /\ cmdChan' = IF stops THEN StopCurrentPattern(cmdChan) ELSE cmdChan
              /\ stopCalls' = stopCalls + (IF stops THEN 1 ELSE 0)
              /\ stopsDropped' = stopsDropped + (IF stops THEN StopDropped(cmdChan) ELSE 0)
              /\ state' = SetPower(state, isOn)
              /\ bleState' = BleSetPower(bleState, isOn)
              /\ ControllerWrite(PowerFrame(isOn))
              /\ Publish([Type |-> PowerChangedEvent, Payload |-> [isOn |-> isOn]])
        /\ UNCHANGED <<runLoop, scripts, blePc, sessions, ctxDone, orchestrator,
                       listener, writerVars, storeVars, schedVars, hubVars, fileVars, mqttLog, pushed>>

HandleSetColor ==
    \E cmd \in Commands :
        /\ Receive(cmd)
        /\ cmd.Type = CmdSetColor
        /\ LET r == PayloadGet(cmd.Payload, "r", 0)
               g == PayloadGet(cmd.Payload, "g", 0)
               b == PayloadGet(cmd.Payload, "b", 0)
               stops == ColorStops(state, r, g, b)
           IN /\ cmdChan' = IF stops THEN StopCurrentPattern(cmdChan) ELSE cmdChan
              /\ stopCalls' = stopCalls + (IF stops THEN 1 ELSE 0)
              /\ stopsDropped' = stopsDropped + (IF stops THEN StopDropped(cmdChan) ELSE 0)
              /\ state' = SetColor(state, r, g, b)
              /\ bleState' = BleSetColor(bleState, r, g, b)
              /\ ControllerWrite(ColorFrame(r, g, b))
              /\ Publish([Type |-> ColorChangedEvent,
                            Payload |-> [r |-> r, g |-> g, b |-> b,
                                         hex |-> HexColor(r, g, b)]])
        /\ UNCHANGED <<runLoop, scripts, blePc, sessions, ctxDone, orchestrator,
                       listener, writerVars, storeVars, schedVars, hubVars, fileVars, mqttLog, pushed>>

\* A set-brightness that stops the pattern like set-color does.
HandleSetBrightness_Stops ==
    \E cmd \in Commands :
        /\ Receive(cmd)
        /\ cmd.Type = CmdSetBrightness
        /\ LET val == PayloadGet(cmd.Payload, "value", 100)
           IN /\ cmdChan' = StopCurrentPattern(cmdChan)
              /\ stopCalls' = stopCalls + 1
              /\ stopsDropped' = stopsDropped + StopDropped(cmdChan)
              /\ state' = SetBrightness(state, val)
              /\ bleState' = BleSetBrightness(bleState, val)
              /\ ControllerWrite(BrightnessFrame(val))
              /\ Publish([Type |-> StateChangedEvent, Payload |-> [brightness |-> val]])
        /\ UNCHANGED <<runLoop, scripts, blePc, sessions, ctxDone, orchestrator,
                       listener, writerVars, storeVars, schedVars, hubVars, fileVars, mqttLog, pushed>>

HandleSetBrightness ==
    \E cmd \in Commands :
        /\ Receive(cmd)
        /\ cmd.Type = CmdSetBrightness
        /\ LET val == PayloadGet(cmd.Payload, "value", 100)
           IN /\ state' = SetBrightness(state, val)
              /\ bleState' = BleSetBrightness(bleState, val)
              /\ ControllerWrite(BrightnessFrame(val))
              /\ Publish([Type |-> StateChangedEvent, Payload |-> [brightness |-> val]])
        /\ UNCHANGED <<cmdChan, runLoop, scripts, blePc, sessions, ctxDone, orchestrator,
                       listener, writerVars, storeVars, schedVars, hubVars, fileVars, mqttLog, pushed, stopCalls, stopsDropped>>

HandleSetSpeed ==
    \E cmd \in Commands :
        /\ Receive(cmd)
        /\ cmd.Type = CmdSetSpeed
        /\ LET val == PayloadGet(cmd.Payload, "value", 50)
           IN /\ state' = SetSpeed(state, val)
              /\ bleState' = BleSetSpeed(bleState, val)
              /\ ControllerWrite(SpeedFrame(val))
              /\ Publish([Type |-> StateChangedEvent, Payload |-> [speed |-> val]])
        /\ UNCHANGED <<cmdChan, runLoop, scripts, blePc, sessions, ctxDone, orchestrator,
                       listener, writerVars, storeVars, schedVars, hubVars, fileVars, mqttLog, pushed, stopCalls, stopsDropped>>

HandleSetHardwarePattern ==
    \E cmd \in Commands :
        /\ Receive(cmd)
        /\ cmd.Type = CmdSetHardwarePattern
        /\ cmdChan' = StopCurrentPattern(cmdChan)
        /\ stopCalls' = stopCalls + 1
        /\ stopsDropped' = stopsDropped + StopDropped(cmdChan)
        /\ ControllerWrite(HardwarePatternFrame(PayloadGet(cmd.Payload, "id", 0)))
        /\ UNCHANGED <<state, bleState, runLoop, scripts, agentSub, serverSub, blePc, sessions,
                       ctxDone, orchestrator, listener, writerVars, storeVars, schedVars, hubVars, fileVars, mqttLog, busLog, pushed>>

HandleRunPattern ==
    \E cmd \in Commands :
        /\ Receive(cmd)
        /\ cmd.Type = CmdRunPattern
        /\ LET name == PayloadGet(cmd.Payload, "name", "")
           IN /\ ~RunPatternBlocks(cmdChan, name)
              /\ cmdChan' = RunPattern(cmdChan, name)
        /\ UNCHANGED <<state, bleState, runLoop, scripts, agentSub, serverSub, blePc, sessions,
                       ctxDone, orchestrator, listener, queueVars, writerVars, storeVars, schedVars, hubVars, fileVars, mqttLog, busLog, pushed, stopCalls, stopsDropped>>

HandleStopPattern ==
    \E cmd \in Commands :
        /\ Receive(cmd)
        /\ cmd.Type = CmdStopPattern
        /\ cmdChan' = StopCurrentPattern(cmdChan)
        /\ stopCalls' = stopCalls + 1
        /\ stopsDropped' = stopsDropped + StopDropped(cmdChan)
        /\ UNCHANGED <<state, bleState, runLoop, scripts, agentSub, serverSub, blePc, sessions,
                       ctxDone, orchestrator, listener, queueVars, writerVars, storeVars, schedVars, hubVars, fileVars, mqttLog, busLog, pushed>>

\* The kinds handleCommand has a case for, among those the transports push here.
KnownKinds == {CmdSetPower, CmdSetColor, CmdSetBrightness, CmdSetSpeed,
               CmdSetHardwarePattern, CmdRunPattern, CmdStopPattern,
               CmdAddSchedule, CmdRemoveSchedule, CmdGetPatternCode,
               CmdSavePatternCode, CmdDeletePattern}

\* A default branch that panics: the orchestrator goroutine dies with it.
HandleUnknownCommand_Panics ==
    \E cmd \in Commands :
        /\ Receive(cmd)
        /\ cmd.Type \notin KnownKinds
        /\ orchestrator' = FALSE
        /\ UNCHANGED <<state, bleState, cmdChan, runLoop, scripts, agentSub, serverSub, blePc,
                       sessions, ctxDone, listener, queueVars, writerVars,
                       storeVars, schedVars, hubVars, fileVars, mqttLog, busLog, pushed, stopCalls, stopsDropped>>

\* handleCommand, `default:` only logs the unknown type.
HandleUnknownCommand ==
    \E cmd \in Commands :
        /\ Receive(cmd)
        /\ cmd.Type \notin KnownKinds
        /\ UNCHANGED <<state, bleState, cmdChan, runLoop, scripts, agentSub, serverSub, blePc,
                       sessions, ctxDone, orchestrator, listener, queueVars, writerVars,
                       storeVars, schedVars, hubVars, fileVars, mqttLog, busLog, pushed, stopCalls, stopsDropped>>

\* Agent.Run: `case <-a.ctx.Done()`
OrchestratorExit ==
    /\ orchestrator
    /\ pendingBroadcast = NoMessage
    /\ ctxDone
    /\ orchestrator' = FALSE
    /\ UNCHANGED <<state, bleState, commandChannel, cmdChan, runLoop, scripts, agentSub, serverSub,
                   blePc, sessions, ctxDone, listener, queueVars, writerVars, storeVars, schedVars, hubVars, fileVars, mqttLog, busLog, pushed, handled,
                   stopCalls, stopsDropped>>

\* Agent.Shutdown: a.cancel()
Shutdown ==
    /\ ~ctxDone
    /\ ctxDone' = TRUE
    /\ UNCHANGED <<state, bleState, commandChannel, cmdChan, runLoop, scripts, agentSub, serverSub,
                   blePc, sessions, orchestrator, listener, queueVars, writerVars, storeVars, schedVars, hubVars, fileVars, mqttLog, busLog, pushed, handled,
                   stopCalls, stopsDropped>>

\* ------------------------------------------------------------------ listener
\* Agent.syncState: copy the BLE controller's state into the State Store.
SyncedState(st, bs) ==
    SetSpeed(SetBrightness(SetColor(SetPower(st, bs.IsOn), bs.R, bs.G, bs.B),
                           bs.Brightness), bs.Speed)

\* Agent.syncState: the full snapshot it publishes.
SyncEvent(bs) ==
    [Type |-> StateChangedEvent,
     Payload |-> [isOn |-> bs.IsOn, r |-> bs.R, g |-> bs.G, b |-> bs.B,
                  hex |-> HexColor(bs.R, bs.G, bs.B),
                  brightness |-> bs.Brightness, speed |-> bs.Speed]]

\* A listener that looks for the pattern name under the key the engine publishes.
ListenerPatternKey_Published == "pattern"

\* The key under which listenEvents looks for the pattern name.
ListenerPatternKey == "running"

\* Agent.listenEvents, case DeviceConnectedEvent
ListenDeviceConnected ==
    /\ listener
    /\ agentSub # <<>>
    /\ Head(agentSub).Type = DeviceConnectedEvent
    /\ LET payload == Head(agentSub).Payload
           wasConnected == state.IsConnected
           patternToResume == state.RunningPattern
           resumes == ~wasConnected /\ payload.connected /\ patternToResume # ""
       IN /\ state' = SetConnection(state, payload.connected, payload.rssi)
          /\ resumes => ~RunPatternBlocks(cmdChan, patternToResume)
          /\ cmdChan' = IF resumes THEN RunPattern(cmdChan, patternToResume) ELSE cmdChan
    /\ agentSub' = Tail(agentSub)
    /\ UNCHANGED <<bleState, commandChannel, runLoop, scripts, blePc, sessions, ctxDone,
                   orchestrator, listener, queueVars, writerVars, storeVars, schedVars, hubVars, fileVars, mqttLog, busLog,
                   serverSub, pushed, handled, stopCalls, stopsDropped>>

\* Agent.listenEvents, case PatternChangedEvent
ListenPatternChanged ==
    /\ listener
    /\ agentSub # <<>>
    /\ Head(agentSub).Type = PatternChangedEvent
    /\ LET payload == Head(agentSub).Payload
       IN IF ListenerPatternKey \in DOMAIN payload
          THEN LET pattern == payload[ListenerPatternKey]
               IN IF pattern = ""
                  THEN /\ state' = SyncedState(SetRunningPattern(state, pattern), bleState)
                       /\ busLog' = Append(busLog, Stamp(SyncEvent(bleState)))
                       /\ serverSub' = Deliver(serverSub, Stamp(SyncEvent(bleState)))
                       /\ agentSub' = Tail(agentSub)
                  ELSE /\ state' = SetRunningPattern(state, pattern)
                       /\ agentSub' = Tail(agentSub)
                       /\ UNCHANGED <<busLog, serverSub>>
          ELSE /\ agentSub' = Tail(agentSub)
               /\ UNCHANGED <<state, busLog, serverSub>>
    /\ UNCHANGED <<bleState, commandChannel, cmdChan, runLoop, scripts, blePc, sessions,
                   ctxDone, orchestrator, listener, queueVars, writerVars, storeVars, schedVars, hubVars, fileVars, mqttLog, pushed, handled, stopCalls, stopsDropped>>

\* Agent.listenEvents: `case <-a.ctx.Done()`
ListenerExit ==
    /\ listener
    /\ ctxDone
    /\ listener' = FALSE
    /\ UNCHANGED <<state, bleState, commandChannel, cmdChan, runLoop, scripts, agentSub, serverSub,
                   blePc, sessions, ctxDone, orchestrator, busLog, pushed, handled,
                   stopCalls, stopsDropped, queueVars, writerVars, storeVars, schedVars, hubVars, fileVars, mqttLog>>

\* ------------------------------------------------------------------ BLE writer
\* Controller.Write called by a binding of a running script.
ScriptWrite(payload) ==
    /\ Len(writeLog) < MaxWrites
    /\ ControllerWrite(payload)
    /\ UNCHANGED <<state, bleState, commandChannel, cmdChan, runLoop, scripts, agentSub,
                   serverSub, blePc, sessions, ctxDone, orchestrator, listener, busLog,
                   pushed, handled, stopCalls, stopsDropped, writerVars, storeVars, schedVars, hubVars, fileVars, mqttLog>>

\* Controller.Write called by a binding of script id: the script's code runs,
\* whether or not its context is cancelled already.  lastWrite is history, the
\* position in writeLog of the script's last frame.
ScriptWriteBy(id, payload) ==
    /\ Len(writeLog) < MaxWrites
    /\ scripts[id].status = "running"
    /\ ~scripts[id].failed
    /\ ControllerWrite(payload)
    /\ scripts' = [scripts EXCEPT ![id].lastWrite = Len(writeLog) + 1]
    /\ UNCHANGED <<state, bleState, commandChannel, cmdChan, runLoop, agentSub,
                   serverSub, blePc, sessions, ctxDone, orchestrator, listener, busLog,
                   pushed, handled, stopCalls, stopsDropped, writerVars, storeVars,
                   schedVars, hubVars, fileVars, mqttLog>>

WriterUnchanged ==
    UNCHANGED <<state, bleState, commandChannel, cmdChan, runLoop, scripts, agentSub,
                serverSub, blePc, sessions, ctxDone, orchestrator, listener, busLog,
                pushed, handled, stopCalls, stopsDropped, storeVars, schedVars, hubVars, fileVars, mqttLog,
                characteristic, prevCharacteristic, heartbeatChar, lateChar, writeLog>>

\* A writer loop that takes the newest queued frame.
WriterRecv_Newest ==
    /\ writer.pc = "recv"
    /\ bleCommandChan # <<>>
    /\ writer' = [pc |-> "wait", payload |-> bleCommandChan[Len(bleCommandChan)]]
    /\ bleCommandChan' = SubSeq(bleCommandChan, 1, Len(bleCommandChan) - 1)
    /\ UNCHANGED <<tokens, now, written, disconnectChan, signalOf>>
    /\ WriterUnchanged

\* commandWriterLoop: `case payload := <-c.commandChan`
WriterRecv ==
    /\ writer.pc = "recv"
    /\ bleCommandChan # <<>>
    /\ writer' = [pc |-> "wait", payload |-> Head(bleCommandChan)]
    /\ bleCommandChan' = Tail(bleCommandChan)
    /\ UNCHANGED <<tokens, now, written, disconnectChan, signalOf>>
    /\ WriterUnchanged

\* A writer loop that does not wait for a token.
WriterWait_Unlimited ==
    /\ writer.pc = "wait"
    /\ ~ctxDone
    /\ writer' = [writer EXCEPT !.pc = "write"]
    /\ UNCHANGED <<tokens, bleCommandChan, now, written, disconnectChan, signalOf>>
    /\ WriterUnchanged

\* commandWriterLoop: bleCommandLimiter.Wait(ctx) returns once a token is there
WriterWait ==
    /\ writer.pc = "wait"
    /\ ~ctxDone
    /\ tokens >= 1
    /\ tokens' = tokens - 1
    /\ writer' = [writer EXCEPT !.pc = "write"]
    /\ UNCHANGED <<bleCommandChan, now, written, disconnectChan, signalOf>>
    /\ WriterUnchanged

\* The values a read of c.characteristic can return: Run and the discovery
\* goroutine assign it without synchronisation, so the writer sees the value
\* before or after the last assignment.
SeenCharacteristic == {characteristic, prevCharacteristic}

\* The device of session h is connected.
DeviceConnected(h) == h = sessions /\ blePc \in {"discover", "ready"}

\* commandWriterLoop: the characteristic is empty, `continue`
WriterSkip ==
    /\ writer.pc = "write"
    /\ 0 \in SeenCharacteristic
    /\ writer' = [pc |-> "recv", payload |-> NoFrame]
    /\ UNCHANGED <<bleCommandChan, tokens, now, written, disconnectChan, signalOf>>
    /\ WriterUnchanged

\* commandWriterLoop: WriteWithoutResponse succeeded
WriterWriteOk ==
    /\ writer.pc = "write"
    /\ \E h \in SeenCharacteristic : h # 0 /\ DeviceConnected(h)
    /\ written' = Append(written, [payload |-> writer.payload.payload,
                                   seq |-> writer.payload.seq, at |-> now])
    /\ writer' = [pc |-> "recv", payload |-> NoFrame]
    /\ UNCHANGED <<bleCommandChan, tokens, now, disconnectChan, signalOf>>
    /\ WriterUnchanged

\* signalDisconnect: a non-blocking send on a channel of capacity 1; h is the
\* session of the characteristic whose write or read failed.
SignalDisconnect(h) ==
    /\ disconnectChan' = 1
    /\ signalOf' = IF disconnectChan = 0 THEN h ELSE signalOf

\* commandWriterLoop: WriteWithoutResponse failed, signalDisconnect
WriterWriteFailed ==
    /\ writer.pc = "write"
    /\ \E h \in SeenCharacteristic : h # 0 /\ SignalDisconnect(h)
    /\ writer' = [pc |-> "recv", payload |-> NoFrame]
    /\ UNCHANGED <<bleCommandChan, tokens, now, written>>
    /\ WriterUnchanged

\* A writer loop whose limiter wait does not observe the context.
WriterExit_IdleOnly ==
    /\ writer.pc = "recv"
    /\ ctxDone
    /\ writer' = [pc |-> "stopped", payload |-> NoFrame]
    /\ UNCHANGED <<bleCommandChan, tokens, now, written, disconnectChan, signalOf>>
    /\ WriterUnchanged

\* commandWriterLoop: `case <-ctx.Done()`, or Wait returns the context's error
WriterExit ==
    /\ writer.pc \in {"recv", "wait"}
    /\ ctxDone
    /\ writer' = [pc |-> "stopped", payload |-> NoFrame]
    /\ UNCHANGED <<bleCommandChan, tokens, now, written, disconnectChan, signalOf>>
    /\ WriterUnchanged

\* One token period passes: the bucket gains a token up to its capacity.
Tick ==
    /\ now < MaxTime
    /\ now' = now + 1
    /\ tokens' = IF tokens < RateBurst THEN tokens + 1 ELSE tokens
    /\ UNCHANGED <<bleCommandChan, writer, written, disconnectChan, signalOf>>
    /\ WriterUnchanged

\* ------------------------------------------------------------------ BLE supervisor
BleUnchanged ==
    UNCHANGED <<state, bleState, commandChannel, cmdChan, runLoop, scripts, ctxDone,
                orchestrator, listener, queueVars, limiterVars, storeVars, schedVars, hubVars, fileVars, mqttLog, pushed,
                handled, stopCalls, stopsDropped>>

\* An assignment of c.characteristic
SetCharacteristic(h) ==
    /\ characteristic' = h
    /\ prevCharacteristic' = characteristic

\* Controller.Run: publishConnection(false, 0) before the loop
BleStart ==
    /\ blePc = "start"
    /\ Publish(ConnectionEvent(FALSE, 0))
    /\ blePc' = "scan"
    /\ UNCHANGED <<sessions, linkVars>>
    /\ BleUnchanged

\* Controller.Run, the top of the loop: drain disconnectChan, reset both
\* characteristics and start the scan
BleLoopTop ==
    /\ blePc = "scan"
    /\ ~ctxDone
    /\ disconnectChan' = 0
    /\ signalOf' = 0
    /\ SetCharacteristic(0)
    /\ heartbeatChar' = 0
    /\ blePc' = "scanning"
    /\ UNCHANGED <<sessions, lateChar, busLog, agentSub, serverSub>>
    /\ BleUnchanged

\* Controller.Run: the scan finds a peripheral with a configured name
BleScanFound ==
    /\ blePc = "scanning"
    /\ sessions < MaxSessions
    /\ blePc' = "connect"
    /\ sessions' = sessions + 1
    /\ UNCHANGED <<linkVars, busLog, agentSub, serverSub>>
    /\ BleUnchanged

\* Controller.Run: `case <-scanCtx.Done()`, the scan timed out or was interrupted
BleScanTimeout ==
    /\ blePc = "scanning"
    /\ blePc' = "scan"
    /\ UNCHANGED <<sessions, linkVars, busLog, agentSub, serverSub>>
    /\ BleUnchanged

\* Controller.Run: adapter.Connect succeeded
BleConnected ==
    /\ blePc = "connect"
    /\ Publish(ConnectionEvent(TRUE, ScanRSSI))
    /\ blePc' = "discover"
    /\ UNCHANGED <<sessions, linkVars>>
    /\ BleUnchanged

\* Controller.Run: adapter.Connect failed
BleConnectFailed ==
    /\ blePc = "connect"
    /\ Publish(ConnectionEvent(FALSE, 0))
    /\ blePc' = "scan"
    /\ UNCHANGED <<sessions, linkVars>>
    /\ BleUnchanged

\* Controller.Run: discovery succeeded, the device is ready.  The goroutine
\* stores the write characteristic, and the heartbeat characteristic if the
\* generic access service has one.
BleDiscovered ==
    /\ blePc = "discover"
    /\ SetCharacteristic(sessions)
    /\ \E hb \in {0, sessions} : heartbeatChar' = hb
    /\ blePc' = "ready"
    /\ UNCHANGED <<sessions, disconnectChan, signalOf, lateChar, busLog, agentSub, serverSub>>
    /\ BleUnchanged

\* Controller.Run: discovery failed: disconnect and restart the loop
BleDiscoverFailed ==
    /\ blePc = "discover"
    /\ blePc' = "scan"
    /\ UNCHANGED <<sessions, linkVars, busLog, agentSub, serverSub>>
    /\ BleUnchanged

\* Controller.Run: discovery timed out: disconnect and restart the loop, with the
\* discovery goroutine still running
BleDiscoverTimeout ==
    /\ blePc = "discover"
    /\ blePc' = "scan"
    /\ lateChar' = sessions
    /\ UNCHANGED <<sessions, characteristic, prevCharacteristic, heartbeatChar,
                   disconnectChan, signalOf, busLog, agentSub, serverSub>>
    /\ BleUnchanged

\* The discovery goroutine of a timed-out discovery stores its characteristic.
BleLateDiscovery ==
    /\ lateChar # 0
    /\ SetCharacteristic(lateChar)
    /\ lateChar' = 0
    /\ UNCHANGED <<blePc, sessions, heartbeatChar, disconnectChan, signalOf, busLog, agentSub,
                   serverSub>>
    /\ BleUnchanged

\* Controller.Run, the ready loop: the heartbeat read failed, signalDisconnect
BleHeartbeatFailed ==
    /\ blePc = "ready"
    /\ heartbeatChar # 0
    /\ disconnectChan = 0
    /\ SignalDisconnect(heartbeatChar)
    /\ UNCHANGED <<blePc, sessions, characteristic, prevCharacteristic, heartbeatChar,
                   lateChar, busLog, agentSub, serverSub>>
    /\ BleUnchanged

\* A supervisor that stops after a disconnect instead of scanning again.
BleDisconnected_GivesUp ==
    /\ blePc = "ready"
    /\ disconnectChan = 1
    /\ disconnectChan' = 0
    /\ signalOf' = 0
    /\ Publish(ConnectionEvent(FALSE, 0))
    /\ SetCharacteristic(0)
    /\ heartbeatChar' = 0
    /\ blePc' = "stopped"
    /\ UNCHANGED <<sessions, lateChar>>
    /\ BleUnchanged

\* Controller.Run: `case <-c.disconnectChan` in the ready loop, then the reset
BleDisconnected ==
    /\ blePc = "ready"
    /\ disconnectChan = 1
    /\ disconnectChan' = 0
    /\ signalOf' = 0
    /\ Publish(ConnectionEvent(FALSE, 0))
    /\ SetCharacteristic(0)
    /\ heartbeatChar' = 0
    /\ blePc' = "scan"
    /\ UNCHANGED <<sessions, lateChar>>
    /\ BleUnchanged

\* Controller.Run: `case <-ctx.Done()`
BleExit ==
    /\ blePc \in {"scan", "connect", "discover", "ready"}
    /\ ctxDone
    /\ blePc' = "stopped"
    /\ UNCHANGED <<sessions, linkVars, busLog, agentSub, serverSub>>
    /\ BleUnchanged

\* ------------------------------------------------------------------ scheduler
SchedUnchanged ==
    UNCHANGED <<state, commandChannel, runLoop, scripts, agentSub, serverSub, blePc,
                sessions, ctxDone, orchestrator, listener, busLog, pushed, handled,
                writerVars, storeVars, hubVars, fileVars, mqttLog>>

\* A piece of a command text is a run of blanks.
IsSpace(piece) == piece \in {" ", "  "}

\* strings.Fields: the words of the text, the blanks dropped
Fields(text) == SelectSeq(text, LAMBDA piece : ~IsSpace(piece))

\* strings.Join(parts, sep)
RECURSIVE Join(_, _)
Join(parts, sep) ==
    IF parts = <<>> THEN ""
    ELSE IF Len(parts) = 1 THEN parts[1]
    ELSE parts[1] \o sep \o Join(Tail(parts), sep)

\* cron.Parser.Parse accepts the expression.
CronParses(spec) == spec = "0 8 * * *"

\* strconv.Itoa and its inverse, for the ids of one process
Digits == <<"0", "1", "2", "3", "4", "5", "6", "7", "8", "9">>
Itoa(n) == Digits[n + 1]
Atoi(str) == CHOOSE n \in 0..9 : Digits[n + 1] = str

\* json.MarshalIndent(s.store): an object keyed by the decimal ids
Marshal(st) == [key \in {Itoa(id) : id \in DOMAIN st} |-> st[Atoi(key)]]

\* json.Unmarshal into a map[cron.EntryID]ScheduleEntry
Unmarshal(data) == [id \in {Atoi(key) : key \in DOMAIN data} |-> data[Itoa(id)]]

\* Scheduler.save that leaves the file as it is.
Save_Stale(file, st) == file

\* Scheduler.save: the file holds the marshalled store
Save(file, st) == [exists |-> TRUE, data |-> Marshal(st)]

\* m[id] = entry
MapPut(mp, id, entry) == [i \in DOMAIN mp \cup {id} |-> IF i = id THEN entry ELSE mp[i]]

\* delete(m, id)
MapDelete(mp, id) == [i \in DOMAIN mp \ {id} |-> mp[i]]

\* Scheduler.Add, as called
Add(spec, command) ==
    /\ Len(schedLog) < MaxSchedSteps
    /\ cronNext < MaxEntries
    /\ schedLog' = Append(schedLog, [op |-> "add", spec |-> spec, command |-> command])
    /\ IF CronParses(spec)
       THEN LET id == cronNext + 1
                entry == [Spec |-> spec, Command |-> command]
            IN /\ cronNext' = id
               /\ cronEntries' = MapPut(cronEntries, id, entry)
               /\ store' = MapPut(store, id, entry)
               /\ schedulesFile' = Save(schedulesFile, MapPut(store, id, entry))
       ELSE UNCHANGED <<cronNext, cronEntries, store, schedulesFile>>

\* A call of Scheduler.Add
SchedulerAdd(spec, command) ==
    /\ Add(spec, command)
    /\ UNCHANGED <<bleState, cmdChan, stopCalls, stopsDropped, queueVars, pendingRuns>>
    /\ SchedUnchanged

\* Scheduler.Remove, as called
Remove(id) ==
    /\ Len(schedLog) < MaxSchedSteps
    /\ schedLog' = Append(schedLog, [op |-> "remove", id |-> id])
    /\ cronEntries' = MapDelete(cronEntries, id)
    /\ store' = MapDelete(store, id)
    /\ schedulesFile' = Save(schedulesFile, MapDelete(store, id))
    /\ UNCHANGED cronNext

\* A call of Scheduler.Remove
SchedulerRemove(id) ==
    /\ Remove(id)
    /\ UNCHANGED <<bleState, cmdChan, stopCalls, stopsDropped, queueVars, pendingRuns>>
    /\ SchedUnchanged

\* The orders in which a range over a map can visit its keys.
Orders(keys) ==
    {order \in [1..Cardinality(keys) -> keys] :
        \A i, j \in 1..Cardinality(keys) : order[i] = order[j] => i = j}

\* Scheduler.load that registers each distinct entry of the file once.
Load_Distinct(temp, order) ==
    LET kept == SelectSeq(order, LAMBDA id :
                    /\ CronParses(temp[id].Spec)
                    /\ \A k \in DOMAIN temp : temp[k] = temp[id] => id <= k)
    IN [id \in 1..Len(kept) |-> temp[kept[id]]]

\* Scheduler.load: the entries of the file, visited in this order, are added to a
\* new cron evaluator, which numbers them from 1; an entry it rejects is skipped.
Load(temp, order) ==
    LET kept == SelectSeq(order, LAMBDA id : CronParses(temp[id].Spec))
    IN [id \in 1..Len(kept) |-> temp[kept[id]]]

\* The process starts again: NewScheduler loads the schedules file.
SchedulerRestart ==
    /\ Len(schedLog) < MaxSchedSteps
    /\ schedLog' = Append(schedLog, [op |-> "load"])
    /\ IF ~schedulesFile.exists
       THEN /\ cronEntries' = <<>>
            /\ store' = <<>>
       ELSE LET temp == Unmarshal(schedulesFile.data)
            IN \E order \in Orders(DOMAIN temp) :
                   /\ cronEntries' = Load(temp, order)
                   /\ store' = Load(temp, order)
    /\ cronNext' = Len(cronEntries')
    /\ pendingRuns' = <<>>
    /\ UNCHANGED <<bleState, cmdChan, stopCalls, stopsDropped, queueVars, schedulesFile>>
    /\ SchedUnchanged

\* Scheduler.execute, case "power": stop the pattern and command the controller.
ExecutePower(isOn) ==
    /\ cmdChan' = StopCurrentPattern(cmdChan)
    /\ stopCalls' = stopCalls + 1
    /\ stopsDropped' = stopsDropped + StopDropped(cmdChan)
    /\ bleState' = BleSetPower(bleState, isOn)
    /\ ControllerWrite(PowerFrame(isOn))
    /\ UNCHANGED pendingRuns

\* Scheduler.execute, cases "pattern" and "lua": a goroutine is spawned to send
\* the command to the engine.
ExecuteSpawn(cmds) ==
    /\ pendingRuns' = pendingRuns \o cmds
    /\ UNCHANGED <<bleState, cmdChan, stopCalls, stopsDropped, queueVars>>

\* Engine.ExecuteString: the command it sends
RunString(code) == [kind |-> cmdRunString, name |-> "single line command", code |-> code]

\* Scheduler.execute
SchedulerExecute(command) ==
    LET parts == Fields(command)
    IN IF Len(parts) = 0 THEN ExecuteSpawn(<<>>)
       ELSE IF parts[1] = "power"
            THEN ExecutePower(Len(parts) > 1 /\ parts[2] = "on")
       ELSE IF parts[1] = "pattern"
            THEN ExecuteSpawn(IF Len(parts) > 1 THEN RunPattern(<<>>, parts[2]) ELSE <<>>)
       ELSE IF parts[1] = "lua"
            THEN LET luaCode == Join(Tail(parts), " ")
                 IN ExecuteSpawn(IF luaCode # "" THEN <<RunString(luaCode)>> ELSE <<>>)
       ELSE ExecuteSpawn(<<>>)

\* The cron evaluator fires an entry: its function calls Scheduler.execute.
CronFire(id) ==
    /\ Len(schedLog) < MaxSchedSteps
    /\ id \in DOMAIN cronEntries
    /\ schedLog' = Append(schedLog, [op |-> "fire", command |-> cronEntries[id].Command])
    /\ SchedulerExecute(cronEntries[id].Command)
    /\ UNCHANGED <<cronEntries, cronNext, store, schedulesFile>>
    /\ SchedUnchanged

\* A goroutine spawned by Scheduler.execute sends its command to the engine.
CronSend(k) ==
    /\ k \in 1..Len(pendingRuns)
    /\ Len(cmdChan) < EngineChanCap
    /\ cmdChan' = Append(cmdChan, pendingRuns[k])
    /\ pendingRuns' = SubSeq(pendingRuns, 1, k - 1) \o SubSeq(pendingRuns, k + 1, Len(pendingRuns))
    /\ UNCHANGED <<bleState, stopCalls, stopsDropped, queueVars, cronEntries, cronNext,
                   store, schedulesFile, schedLog>>
    /\ SchedUnchanged

\* ------------------------------------------------------------------ server listener
HubUnchanged ==
    UNCHANGED <<state, bleState, commandChannel, cmdChan, runLoop, scripts, agentSub,
                blePc, sessions, ctxDone, orchestrator, listener, busLog, pushed,
                handled, stopCalls, stopsDropped, queueVars, writerVars, storeVars,
                schedVars, fileVars, mqttLog>>

\* NewMessage; idx is history, the bus position of the event the message
\* carries, 0 for a message that carries none.
NewMessage(type, payload) == [Type |-> type, Payload |-> payload, idx |-> 0]

\* Server.listenEvents: the message type of each kind of event
MessageType(eventType) ==
    CASE eventType = DeviceConnectedEvent -> "ble_status"
      [] eventType = StateChangedEvent    -> "device_state"
      [] eventType = PatternChangedEvent  -> "pattern_status"
      [] eventType = PowerChangedEvent    -> "power_update"
      [] eventType = ColorChangedEvent    -> "color_update"

\* Server.listenEvents: the message broadcast for an event
EventMessage(event) ==
    [Type |-> MessageType(event.Type), Payload |-> event.Payload, idx |-> event.idx]

\* Hub.Run, `case message := <-h.broadcast`: the hub takes the message only
\* from its select, and then writes it to every registered client in turn.
HubTakes(msg) ==
    /\ hub.pc = "select"
    /\ hub' = IF hubClients = {} THEN IdleHub
              ELSE [pc |-> "write", msg |-> msg, todo |-> hubClients]
    /\ hubLog' = Append(hubLog, msg)

\* Server.listenEvents: `for event := range sub`
ServerListen ==
    /\ serverSub # <<>>
    /\ serverHand = NoMessage
    /\ serverHand' = EventMessage(Head(serverSub))
    /\ serverSub' = Tail(serverSub)
    /\ UNCHANGED <<hub, hubClients, sockets, pendingBroadcast, hubLog>>
    /\ HubUnchanged

\* Server.listenEvents: s.Hub.Broadcast(...), a send on the unbuffered
\* broadcast channel
ServerBroadcast ==
    /\ serverHand # NoMessage
    /\ HubTakes(serverHand)
    /\ serverHand' = NoMessage
    /\ UNCHANGED <<serverSub, hubClients, sockets, pendingBroadcast>>
    /\ HubUnchanged

\* Hub.Run, broadcast case: client.WriteJSON(message) returns for one client
HubWrite(c) ==
    /\ hub.pc = "write"
    /\ c \in hub.todo
    /\ sockets' = [sockets EXCEPT ![c].received = Append(@, [from |-> "hub", msg |-> hub.msg])]
    /\ hub' = IF hub.todo = {c} THEN IdleHub ELSE [hub EXCEPT !.todo = @ \ {c}]
    /\ UNCHANGED <<serverSub, hubClients, serverHand, pendingBroadcast, hubLog>>
    /\ HubUnchanged

\* Hub.Run, broadcast case: the write fails; client.Close(), delete(h.clients, client)
HubWriteFailed(c) ==
    /\ hub.pc = "write"
    /\ c \in hub.todo
    /\ sockets' = [sockets EXCEPT ![c].failed = TRUE]
    /\ hubClients' = hubClients \ {c}
    /\ hub' = IF hub.todo = {c} THEN IdleHub ELSE [hub EXCEPT !.todo = @ \ {c}]
    /\ UNCHANGED <<serverSub, serverHand, pendingBroadcast, hubLog>>
    /\ HubUnchanged

\* Server.handleWebSocket: the priming device_state message, built from
\* s.state.Clone()
PrimingDeviceState(st) ==
    [isOn |-> st.Power, r |-> st.ColorR, g |-> st.ColorG, b |-> st.ColorB,
     hex |-> HexColor(st.ColorR, st.ColorG, st.ColorB),
     brightness |-> st.Brightness, speed |-> st.Speed]

\* Server.handleWebSocket: the steps of the priming burst, in program order
BurstSteps == <<"status", "state", "pattern", "patterns", "schedules">>

\* Server.handleWebSocket: the priming message written at a step
BurstMessage(step, st) ==
    CASE step = "status"    -> NewMessage("ble_status",
                                   [connected |-> st.IsConnected, rssi |-> st.RSSI])
      [] step = "state"     -> NewMessage("device_state", PrimingDeviceState(st))
      [] step = "pattern"   -> NewMessage("pattern_status", [running |-> st.RunningPattern])
      [] step = "patterns"  -> NewMessage("pattern_list", patternFiles)
      [] step = "schedules" -> NewMessage("schedule_list", store)

\* The position after a step of the burst: the next step, or the registration.
AfterBurstStep(step) ==
    CASE step = "status"    -> "state"
      [] step = "state"     -> "pattern"
      [] step = "pattern"   -> "patterns"
      [] step = "patterns"  -> "schedules"
      [] step = "schedules" -> "register"

\* A handler that registers the connection before it writes the burst.
WsUpgrade_RegisterFirst(c) ==
    /\ sockets[c].pc = "new"
    /\ hub.pc = "select"
    /\ hubClients' = hubClients \cup {c}
    /\ sockets' = [sockets EXCEPT ![c].pc = "status", ![c].st = state,
                                  ![c].snap = Len(busLog)]
    /\ UNCHANGED <<serverSub, hub, serverHand, pendingBroadcast, hubLog>>
    /\ HubUnchanged

\* Server.handleWebSocket: the upgrade and `st := s.state.Clone()`; snap is
\* history, the number of events published before the snapshot.
WsUpgrade(c) ==
    /\ sockets[c].pc = "new"
    /\ sockets' = [sockets EXCEPT ![c].pc = "status", ![c].st = state,
                                  ![c].snap = Len(busLog)]
    /\ UNCHANGED <<serverSub, hub, hubClients, serverHand, pendingBroadcast, hubLog>>
    /\ HubUnchanged

\* Server.handleWebSocket: one conn.WriteJSON of the burst; `from` is history,
\* who wrote the message to the connection.
WsPrime(c) ==
    /\ sockets[c].pc \in {BurstSteps[i] : i \in 1..Len(BurstSteps)}
    /\ sockets' = [sockets EXCEPT
                       ![c].received = Append(@, [from |-> "handler",
                                                  msg |-> BurstMessage(sockets[c].pc, sockets[c].st)]),
                       ![c].pc = AfterBurstStep(sockets[c].pc)]
    /\ UNCHANGED <<serverSub, hub, hubClients, serverHand, pendingBroadcast, hubLog>>
    /\ HubUnchanged

\* Server.handleWebSocket: `s.Hub.register <- conn`, taken by the hub's select
WsRegister(c) ==
    /\ sockets[c].pc = "register"
    /\ hub.pc = "select"
    /\ hubClients' = hubClients \cup {c}
    /\ sockets' = [sockets EXCEPT ![c].pc = "serving"]
    /\ UNCHANGED <<serverSub, hub, serverHand, pendingBroadcast, hubLog>>
    /\ HubUnchanged

\* Server.handleWebSocket: the read loop ends; the deferred
\* `s.Hub.unregister <- conn` is taken by the hub's select.
WsClose(c) ==
    /\ sockets[c].pc = "serving"
    /\ hub.pc = "select"
    /\ hubClients' = hubClients \ {c}
    /\ sockets' = [sockets EXCEPT ![c].pc = "closed"]
    /\ UNCHANGED <<serverSub, hub, serverHand, pendingBroadcast, hubLog>>
    /\ HubUnchanged

\* ------------------------------------------------------------------ orchestrator, notifying
NotifyUnchanged ==
    UNCHANGED <<state, bleState, cmdChan, runLoop, scripts, agentSub, serverSub, blePc,
                sessions, ctxDone, orchestrator, listener, busLog, pushed, stopCalls,
                stopsDropped, queueVars, writerVars, storeVars, pendingRuns, hub,
                hubClients, sockets, serverHand, hubLog, mqttLog>>

\* strconv.Atoi succeeds on the decimal ids
IsNumber(str) == \E n \in 0..9 : Digits[n + 1] = str

\* handleCommand, case CmdAddSchedule: Scheduler.Add, then the new schedule
\* list is handed to Hub.Broadcast.
HandleAddSchedule ==
    \E cmd \in Commands :
        /\ Receive(cmd)
        /\ cmd.Type = CmdAddSchedule
        /\ Add(PayloadGet(cmd.Payload, "spec", ""), PayloadGet(cmd.Payload, "command", <<>>))
        /\ pendingBroadcast' = NewMessage("schedule_list", store')
        /\ UNCHANGED fileVars
        /\ NotifyUnchanged

\* handleCommand, case CmdRemoveSchedule: only a decimal id removes and notifies.
HandleRemoveSchedule ==
    \E cmd \in Commands :
        /\ Receive(cmd)
        /\ cmd.Type = CmdRemoveSchedule
        /\ IF "id" \in DOMAIN cmd.Payload /\ IsNumber(cmd.Payload.id)
           THEN /\ Remove(Atoi(cmd.Payload.id))
                /\ pendingBroadcast' = NewMessage("schedule_list", store')
           ELSE UNCHANGED <<cronEntries, cronNext, store, schedulesFile, schedLog,
                            pendingBroadcast>>
        /\ UNCHANGED fileVars
        /\ NotifyUnchanged

\* Engine.GetPatternCode under handleCommand, case CmdGetPatternCode: the file
\* is read at GetPatternPath(name); the code is sent when the read succeeds.
HandleGetPatternCode ==
    \E cmd \in Commands :
        /\ Receive(cmd)
        /\ cmd.Type = CmdGetPatternCode
        /\ LET name == PayloadGet(cmd.Payload, "name", "")
               p == GetPatternPath(name)
           IN IF "name" \in DOMAIN cmd.Payload /\ p.ok
              THEN /\ fileOps' = Append(fileOps, [op |-> "read", name |-> name, path |-> p.path])
                   /\ pendingBroadcast' = IF FileOf(p.path) \in patternFiles
                                          THEN NewMessage("pattern_code", [name |-> name])
                                          ELSE NoMessage
              ELSE UNCHANGED <<fileOps, pendingBroadcast>>
        /\ UNCHANGED <<patternFiles, cronEntries, cronNext, store, schedulesFile, schedLog>>
        /\ NotifyUnchanged

\* Engine.SavePatternCode under handleCommand, case CmdSavePatternCode: the
\* file is written at GetPatternPath(name), then the pattern list is sent.
HandleSavePatternCode ==
    \E cmd \in Commands :
        /\ Receive(cmd)
        /\ cmd.Type = CmdSavePatternCode
        /\ LET name == PayloadGet(cmd.Payload, "name", "")
               p == GetPatternPath(name)
           IN IF {"name", "code"} \subseteq DOMAIN cmd.Payload /\ p.ok
              THEN /\ fileOps' = Append(fileOps, [op |-> "write", name |-> name, path |-> p.path])
                   /\ patternFiles' = patternFiles \cup {FileOf(p.path)}
                   /\ pendingBroadcast' = NewMessage("pattern_list", patternFiles')
              ELSE UNCHANGED <<fileOps, patternFiles, pendingBroadcast>>
        /\ UNCHANGED <<cronEntries, cronNext, store, schedulesFile, schedLog>>
        /\ NotifyUnchanged

\* Engine.DeletePattern under handleCommand, case CmdDeletePattern: os.Remove
\* at GetPatternPath(name); the pattern list is sent when the file was there.
HandleDeletePattern ==
    \E cmd \in Commands :
        /\ Receive(cmd)
        /\ cmd.Type = CmdDeletePattern
        /\ LET name == PayloadGet(cmd.Payload, "name", "")
               p == GetPatternPath(name)
           IN IF "name" \in DOMAIN cmd.Payload /\ p.ok
              THEN /\ fileOps' = Append(fileOps, [op |-> "remove", name |-> name, path |-> p.path])
                   /\ patternFiles' = patternFiles \ {FileOf(p.path)}
                   /\ pendingBroadcast' = IF FileOf(p.path) \in patternFiles
                                          THEN NewMessage("pattern_list", patternFiles')
                                          ELSE NoMessage
              ELSE UNCHANGED <<fileOps, patternFiles, pendingBroadcast>>
        /\ UNCHANGED <<cronEntries, cronNext, store, schedulesFile, schedLog>>
        /\ NotifyUnchanged

\* Hub.Broadcast called by handleCommand: the orchestrator's send on the
\* unbuffered broadcast channel, taken by the hub's select.
OrchestratorBroadcast ==
    /\ pendingBroadcast # NoMessage
    /\ HubTakes(pendingBroadcast)
    /\ pendingBroadcast' = NoMessage
    /\ UNCHANGED <<serverSub, hubClients, sockets, serverHand>>
    /\ HubUnchanged

\* ------------------------------------------------------------------ MQTT bridge
\* The hexadecimal digits, by value.
LowerHex == <<"0", "1", "2", "3", "4", "5", "6", "7", "8", "9", "a", "b", "c", "d", "e", "f">>
UpperHex == <<"0", "1", "2", "3", "4", "5", "6", "7", "8", "9", "A", "B", "C", "D", "E", "F">>

IsHexDigit(ch) == \E v \in 0..15 : LowerHex[v + 1] = ch \/ UpperHex[v + 1] = ch
HexValue(ch) == CHOOSE v \in 0..15 : LowerHex[v + 1] = ch \/ UpperHex[v + 1] = ch

\* fmt.Sscanf, one `%02x` at position pos: one or two hexadecimal digits; n is
\* the number of characters read, 0 when the verb fails.
ScanHex(str, pos) ==
    IF pos > Len(str) \/ ~IsHexDigit(str[pos])
    THEN [n |-> 0, value |-> 0]
    ELSE IF pos + 1 <= Len(str) /\ IsHexDigit(str[pos + 1])
         THEN [n |-> 2, value |-> 16 * HexValue(str[pos]) + HexValue(str[pos + 1])]
         ELSE [n |-> 1, value |-> HexValue(str[pos])]

\* fmt.Sscanf(cleanHex, "%02x%02x%02x", &r, &g, &b)
Sscanf(str) ==
    LET r == ScanHex(str, 1)
        g == ScanHex(str, 1 + r.n)
        b == ScanHex(str, 1 + r.n + g.n)
    IN [ok |-> r.n > 0 /\ g.n > 0 /\ b.n > 0, r |-> r.value, g |-> g.value, b |-> b.value]

\* strings.TrimPrefix(payload, "#")
TrimPrefix(str, ch) == IF str # <<>> /\ str[1] = ch THEN Tail(str) ELSE str

\* strings.Split(payload, ",")
RECURSIVE Split(_, _)
Split(str, sep) ==
    IF \A i \in 1..Len(str) : str[i] # sep
    THEN <<str>>
    ELSE LET i == CHOOSE j \in 1..Len(str) : str[j] = sep /\ \A h \in 1..(j - 1) : str[h] # sep
         IN <<SubSeq(str, 1, i - 1)>> \o Split(SubSeq(str, i + 1, Len(str)), sep)

\* strings.TrimSpace
RECURSIVE TrimSpace(_)
TrimSpace(str) ==
    IF str = <<>> THEN str
    ELSE IF str[1] = " " THEN TrimSpace(Tail(str))
    ELSE IF str[Len(str)] = " " THEN TrimSpace(SubSeq(str, 1, Len(str) - 1))
    ELSE str

\* The value of a decimal numeral.
RECURSIVE Decimal(_)
Decimal(str) ==
    IF str = <<>> THEN 0
    ELSE 10 * Decimal(SubSeq(str, 1, Len(str) - 1))
         + (CHOOSE v \in 0..9 : Digits[v + 1] = str[Len(str)])

\* `v, _ = strconv.Atoi(s)`: the value of a decimal numeral, 0 on an error
AtoiOrZero(str) ==
    IF str # <<>> /\ \A i \in 1..Len(str) : \E v \in 0..9 : Digits[v + 1] = str[i]
    THEN Decimal(str)
    ELSE 0

\* Client.handleColor, the parsing: the hex branch for a payload that starts
\* with # or has six characters, else the r,g,b branch for one with a comma.
ParseColor(payload) ==
    IF (payload # <<>> /\ payload[1] = "#") \/ Len(payload) = 6
    THEN LET scan == Sscanf(TrimPrefix(payload, "#"))
         IN [processed |-> scan.ok, r |-> scan.r, g |-> scan.g, b |-> scan.b]
    ELSE IF \E i \in 1..Len(payload) : payload[i] = ","
         THEN LET parts == Split(payload, ",")
              IN IF Len(parts) = 3
                 THEN [processed |-> TRUE, r |-> AtoiOrZero(TrimSpace(parts[1])),
                       g |-> AtoiOrZero(TrimSpace(parts[2])),
                       b |-> AtoiOrZero(TrimSpace(parts[3]))]
                 ELSE [processed |-> FALSE, r |-> 0, g |-> 0, b |-> 0]
         ELSE [processed |-> FALSE, r |-> 0, g |-> 0, b |-> 0]

\* Client.handleColor: the payload is parsed and, when processed, a set-color
\* is sent on the command channel; mqttLog is history, the payloads handled.
MqttHandleColor(payload) ==
    /\ Len(mqttLog) < MaxMqtt
    /\ mqttLog' = Append(mqttLog, payload)
    /\ LET color == ParseColor(payload.text)
       IN IF color.processed
          THEN /\ Len(commandChannel) < CommandChanCap
               /\ commandChannel' = Append(commandChannel, ColorCommand(color.r, color.g, color.b))
               /\ pushed' = Append(pushed, ColorCommand(color.r, color.g, color.b))
          ELSE UNCHANGED <<commandChannel, pushed>>
    /\ UNCHANGED <<state, bleState, cmdChan, runLoop, scripts, agentSub, serverSub, blePc,
                   sessions, ctxDone, orchestrator, listener, queueVars, writerVars,
                   storeVars, schedVars, hubVars, fileVars, busLog, handled, stopCalls,
                   stopsDropped>>

\* ------------------------------------------------------------------ State Store, by statement
StoreUnchanged ==
    UNCHANGED <<bleState, commandChannel, cmdChan, runLoop, scripts, agentSub, serverSub,
                blePc, sessions, ctxDone, orchestrator, listener, busLog, pushed,
                handled, stopCalls, stopsDropped, queueVars, writerVars, schedVars, hubVars, fileVars, mqttLog>>

\* State.SetColor: s.mu.Lock()
SetColorLock(p, c) ==
    /\ colorSetters[p].pc = "idle"
    /\ Len(colorWrites) < MaxColorWrites
    /\ storeMu.writer = ""
    /\ storeMu.readers = 0
    /\ storeMu' = [storeMu EXCEPT !.writer = p]
    /\ colorSetters' = [colorSetters EXCEPT ![p] = [pc |-> "r", r |-> c[1], g |-> c[2], b |-> c[3]]]
    /\ colorWrites' = Append(colorWrites, c)
    /\ UNCHANGED <<state, cloner, snapshots>>
    /\ StoreUnchanged

\* State.SetColor: s.ColorR = r
SetColorR(p) ==
    /\ colorSetters[p].pc = "r"
    /\ state' = [state EXCEPT !.ColorR = colorSetters[p].r]
    /\ colorSetters' = [colorSetters EXCEPT ![p].pc = "g"]
    /\ UNCHANGED <<storeMu, cloner, snapshots, colorWrites>>
    /\ StoreUnchanged

\* State.SetColor: s.ColorG = g
SetColorG(p) ==
    /\ colorSetters[p].pc = "g"
    /\ state' = [state EXCEPT !.ColorG = colorSetters[p].g]
    /\ colorSetters' = [colorSetters EXCEPT ![p].pc = "b"]
    /\ UNCHANGED <<storeMu, cloner, snapshots, colorWrites>>
    /\ StoreUnchanged

\* State.SetColor: s.ColorB = b
SetColorB(p) ==
    /\ colorSetters[p].pc = "b"
    /\ state' = [state EXCEPT !.ColorB = colorSetters[p].b]
    /\ colorSetters' = [colorSetters EXCEPT ![p].pc = "unlock"]
    /\ UNCHANGED <<storeMu, cloner, snapshots, colorWrites>>
    /\ StoreUnchanged

\* State.SetColor: the deferred s.mu.Unlock()
SetColorUnlock(p) ==
    /\ colorSetters[p].pc = "unlock"
    /\ storeMu' = [storeMu EXCEPT !.writer = ""]
    /\ colorSetters' = [colorSetters EXCEPT ![p] = IdleSetter]
    /\ UNCHANGED <<state, cloner, snapshots, colorWrites>>
    /\ StoreUnchanged

\* A Clone that reads without waiting for the writer to unlock.
CloneRLock_Unlocked ==
    /\ cloner.pc = "idle"
    /\ Len(snapshots) < MaxClones
    /\ storeMu' = [storeMu EXCEPT !.readers = @ + 1]
    /\ cloner' = [cloner EXCEPT !.pc = "r"]
    /\ UNCHANGED <<state, colorSetters, snapshots, colorWrites>>
    /\ StoreUnchanged

\* State.Clone: s.mu.RLock()
CloneRLock ==
    /\ cloner.pc = "idle"
    /\ Len(snapshots) < MaxClones
    /\ storeMu.writer = ""
    /\ storeMu' = [storeMu EXCEPT !.readers = @ + 1]
    /\ cloner' = [cloner EXCEPT !.pc = "r"]
    /\ UNCHANGED <<state, colorSetters, snapshots, colorWrites>>
    /\ StoreUnchanged

\* State.Clone: ColorR: s.ColorR
CloneCopyR ==
    /\ cloner.pc = "r"
    /\ cloner' = [cloner EXCEPT !.pc = "g", !.r = state.ColorR]
    /\ UNCHANGED <<state, storeMu, colorSetters, snapshots, colorWrites>>
    /\ StoreUnchanged

\* State.Clone: ColorG: s.ColorG
CloneCopyG ==
    /\ cloner.pc = "g"
    /\ cloner' = [cloner EXCEPT !.pc = "b", !.g = state.ColorG]
    /\ UNCHANGED <<state, storeMu, colorSetters, snapshots, colorWrites>>
    /\ StoreUnchanged

\* State.Clone: ColorB: s.ColorB
CloneCopyB ==
    /\ cloner.pc = "b"
    /\ cloner' = [cloner EXCEPT !.pc = "unlock", !.b = state.ColorB]
    /\ UNCHANGED <<state, storeMu, colorSetters, snapshots, colorWrites>>
    /\ StoreUnchanged

\* State.Clone: the deferred s.mu.RUnlock(), and the snapshot is returned
CloneRUnlock ==
    /\ cloner.pc = "unlock"
    /\ storeMu' = [storeMu EXCEPT !.readers = @ - 1]
    /\ snapshots' = Append(snapshots, <<cloner.r, cloner.g, cloner.b>>)
    /\ cloner' = IdleCloner
    /\ UNCHANGED <<state, colorSetters, colorWrites>>
    /\ StoreUnchanged

\* ------------------------------------------------------------------ specification
\* The commands of the pattern/run and pattern/stop topics.
PatternCommands == {cmd \in CommandInputs : cmd.Type \in {CmdRunPattern, CmdStopPattern}}

\* Commands from every transport, the orchestrator, the engine and its scripts.
Next ==
    \/ \E cmd \in CommandInputs : TransportPush(cmd)
    \/ HandleSetPower
    \/ HandleSetColor
    \/ HandleSetBrightness
    \/ HandleSetSpeed
    \/ HandleSetHardwarePattern
    \/ HandleRunPattern
    \/ HandleStopPattern
    \/ RunLoopRecv
    \/ RunLoopScriptDone
    \/ RunLoopTimeout
    \/ \E id \in 1..Len(scripts) : ScriptStart(id)
    \/ \E id \in 1..Len(scripts) : ScriptFinish(id)
    \/ \E id \in 1..Len(scripts) : ScriptCancelled(id)

Spec == Init /\ [][Next]_vars

\* The orchestrator fed with every command a transport can forward, the invalid
\* and the unknown ones included.
InputNext ==
    \/ \E cmd \in InputCommands : TransportPush(cmd)
    \/ HandleSetPower
    \/ HandleSetColor
    \/ HandleSetBrightness
    \/ HandleSetSpeed
    \/ HandleSetHardwarePattern
    \/ HandleRunPattern
    \/ HandleStopPattern
    \/ HandleUnknownCommand
    \/ RunLoopRecv
    \/ RunLoopScriptDone
    \/ RunLoopTimeout
    \/ \E id \in 1..Len(scripts) : ScriptStart(id)
    \/ \E id \in 1..Len(scripts) : ScriptFinish(id)
    \/ \E id \in 1..Len(scripts) : ScriptCancelled(id)

InputSpec == Init /\ [][InputNext]_vars

\* The same, with the root context cancelled at any moment.
ShutdownNext ==
    \/ Next
    \/ Shutdown
    \/ OrchestratorExit

ShutdownSpec == Init /\ [][ShutdownNext]_vars

\* Pattern commands, the engine and its scripts, the BLE supervisor's link events
\* and the listener.
LinkNext ==
    \/ \E cmd \in PatternCommands : Len(pushed) < MaxLinkCmds /\ TransportPush(cmd)
    \/ HandleRunPattern
    \/ HandleStopPattern
    \/ RunLoopRecv
    \/ RunLoopScriptDone
    \/ RunLoopTimeout
    \/ \E id \in 1..Len(scripts) : ScriptStart(id)
    \/ \E id \in 1..Len(scripts) : ScriptFinish(id)
    \/ \E id \in 1..Len(scripts) : ScriptCancelled(id)
    \/ ListenDeviceConnected
    \/ ListenPatternChanged
    \/ BleStart
    \/ BleLoopTop
    \/ BleScanFound
    \/ BleConnected
    \/ BleDiscovered
    \/ BleHeartbeatFailed
    \/ BleDisconnected

LinkSpec == Init /\ [][LinkNext]_vars

\* The BLE supervisor with the two listeners of its link events.
SuperviseNext ==
    \/ BleStart
    \/ BleLoopTop
    \/ BleScanFound
    \/ BleScanTimeout
    \/ BleConnected
    \/ BleConnectFailed
    \/ BleDiscovered
    \/ BleDiscoverFailed
    \/ BleDiscoverTimeout
    \/ BleLateDiscovery
    \/ BleHeartbeatFailed
    \/ BleDisconnected
    \/ ListenDeviceConnected
    \/ ServerListen
    \/ ServerBroadcast

SuperviseSpec == Init /\ [][SuperviseNext]_vars

\* The write path of the BLE controller: scripts enqueue frames, the writer
\* loop sends them under the limiter, the supervisor opens and resets the link.
WriterNext ==
    \/ \E payload \in ScriptFrames : ScriptWrite(payload)
    \/ WriterRecv
    \/ WriterWait
    \/ WriterSkip
    \/ WriterWriteOk
    \/ WriterWriteFailed
    \/ Tick
    \/ BleStart
    \/ BleLoopTop
    \/ BleScanFound
    \/ BleConnected
    \/ BleDiscovered
    \/ BleDiscoverTimeout
    \/ BleLateDiscovery
    \/ BleDisconnected

WriterSpec == Init /\ [][WriterNext]_vars

\* The self-healing link: frames are enqueued and written, writes and heartbeats
\* fail, the peripheral keeps advertising and connect and discovery succeed.
HealNext ==
    \/ \E payload \in ScriptFrames : ScriptWrite(payload)
    \/ WriterRecv
    \/ WriterWait
    \/ WriterSkip
    \/ WriterWriteOk
    \/ WriterWriteFailed
    \/ Tick
    \/ BleStart
    \/ BleLoopTop
    \/ BleScanFound
    \/ BleConnected
    \/ BleDiscovered
    \/ BleHeartbeatFailed
    \/ BleDisconnected

\* Controller.Run is a goroutine of its own: each of its steps is taken once it
\* stays possible.
HealFairness ==
    /\ WF_vars(BleStart)
    /\ WF_vars(BleLoopTop)
    /\ WF_vars(BleScanFound)
    /\ WF_vars(BleConnected)
    /\ WF_vars(BleDiscovered)
    /\ WF_vars(BleDisconnected)

HealSpec == Init /\ [][HealNext]_vars /\ HealFairness

\* The orchestrator, the BLE supervisor and the BLE writer, with the root context
\* cancelled at any moment.
TermCommands == {cmd \in CommandInputs : cmd.Type = CmdSetBrightness}

TermNext ==
    \/ \E cmd \in TermCommands : Len(pushed) < MaxLinkCmds /\ TransportPush(cmd)
    \/ HandleSetBrightness
    \/ Shutdown
    \/ OrchestratorExit
    \/ WriterRecv
    \/ WriterWait
    \/ WriterSkip
    \/ WriterWriteOk
    \/ WriterWriteFailed
    \/ WriterExit
    \/ BleStart
    \/ BleLoopTop
    \/ BleScanFound
    \/ BleScanTimeout
    \/ BleConnected
    \/ BleConnectFailed
    \/ BleDiscovered
    \/ BleDiscoverFailed
    \/ BleDiscoverTimeout
    \/ BleHeartbeatFailed
    \/ BleDisconnected
    \/ BleExit

\* Each loop is a goroutine of its own.  A select whose ctx.Done() case stays
\* ready takes it, a scan wait ends with its context, and a write to the
\* characteristic returns.
TermFairness ==
    /\ WF_vars(OrchestratorExit)
    /\ WF_vars(WriterExit)
    /\ WF_vars(WriterSkip \/ WriterWriteOk \/ WriterWriteFailed)
    /\ WF_vars(BleStart)
    /\ WF_vars(BleScanTimeout)
    /\ WF_vars(BleExit)

TermSpec == Init /\ [][TermNext]_vars /\ TermFairness

\* The orchestrator, the engine and its scripts, and the listener of the
\* pattern events.
SyncNext ==
    \/ Next
    \/ ListenPatternChanged

SyncSpec == Init /\ [][SyncNext]_vars

\* The scheduler: its callers, the cron evaluator and restarts of the process.
SchedNext ==
    \/ \E spec \in CronSpecs, command \in CommandTexts : SchedulerAdd(spec, command)
    \/ \E id \in 1..MaxEntries : SchedulerRemove(id)
    \/ SchedulerRestart
    \/ \E id \in 1..MaxEntries : CronFire(id)
    \/ \E k \in 1..MaxSchedSteps : CronSend(k)

SchedSpec == Init /\ [][SchedNext]_vars

\* The goroutines of the State Store: two writers of the colour and a reader.
StoreNext ==
    \/ \E p \in ColorSetterIds, c \in StoreColors : SetColorLock(p, c)
    \/ \E p \in ColorSetterIds : SetColorR(p)
    \/ \E p \in ColorSetterIds : SetColorG(p)
    \/ \E p \in ColorSetterIds : SetColorB(p)
    \/ \E p \in ColorSetterIds : SetColorUnlock(p)
    \/ CloneRLock
    \/ CloneCopyR
    \/ CloneCopyG
    \/ CloneCopyB
    \/ CloneRUnlock

StoreSpec == Init /\ [][StoreNext]_vars

\* Commands pushed while WebSocket clients connect.
HubCommands ==
    {[Type |-> CmdSetPower, Payload |-> [isOn |-> TRUE]]} \cup NotifyInputs

\* The WebSocket side: connections are upgraded, primed and registered while
\* the orchestrator handles commands and the hub broadcasts.
HubNext ==
    \/ \E cmd \in HubCommands : Len(pushed) < MaxHubCmds /\ TransportPush(cmd)
    \/ HandleSetPower
    \/ HandleAddSchedule
    \/ HandleRemoveSchedule
    \/ HandleGetPatternCode
    \/ HandleSavePatternCode
    \/ HandleDeletePattern
    \/ OrchestratorBroadcast
    \/ ServerListen
    \/ ServerBroadcast
    \/ \E c \in ClientIds : WsUpgrade(c)
    \/ \E c \in ClientIds : WsPrime(c)
    \/ \E c \in ClientIds : WsRegister(c)
    \/ \E c \in ClientIds : WsClose(c)
    \/ \E c \in ClientIds : HubWrite(c)
    \/ \E c \in ClientIds : HubWriteFailed(c)

HubSpec == Init /\ [][HubNext]_vars

\* The MQTT bridge's colour topic with the orchestrator behind it.
MqttNext ==
    \/ \E payload \in ColorPayloads : MqttHandleColor(payload)
    \/ HandleSetColor

MqttSpec == Init /\ [][MqttNext]_vars

\* Commands that set fields of the State Store while the link goes up and down.
StateCommands ==
    {[Type |-> CmdSetPower, Payload |-> [isOn |-> TRUE]],
     [Type |-> CmdSetColor, Payload |-> [r |-> 255, g |-> 0, b |-> 0]],
     [Type |-> CmdSetBrightness, Payload |-> [value |-> 40]]}

\* The State Store written by the orchestrator and, on link events of the BLE
\* supervisor, by the listener.
LinkStateNext ==
    \/ \E cmd \in StateCommands : Len(pushed) < MaxLinkCmds /\ TransportPush(cmd)
    \/ HandleSetPower
    \/ HandleSetColor
    \/ HandleSetBrightness
    \/ ListenDeviceConnected
    \/ BleStart
    \/ BleLoopTop
    \/ BleScanFound
    \/ BleConnected
    \/ BleConnectFailed
    \/ BleDiscovered
    \/ BleDiscoverFailed
    \/ BleHeartbeatFailed
    \/ BleDisconnected

LinkStateSpec == Init /\ [][LinkStateNext]_vars

\* The commands that name a pattern file, with good and bad names, handled by
\* the orchestrator and run by the engine.
FileNext ==
    \/ \E cmd \in FileInputs : Len(pushed) < MaxLinkCmds /\ TransportPush(cmd)
    \/ HandleRunPattern
    \/ HandleGetPatternCode
    \/ HandleSavePatternCode
    \/ HandleDeletePattern
    \/ OrchestratorBroadcast
    \/ RunLoopRecv
    \/ RunLoopScriptDone
    \/ \E id \in 1..Len(scripts) : ScriptStart(id)
    \/ \E id \in 1..Len(scripts) : ScriptFinish(id)
    \/ \E id \in 1..Len(scripts) : ScriptCancelled(id)

FileSpec == Init /\ [][FileNext]_vars

\* Commands that remove a pattern file and run it, and run another one.
MissingCommands ==
    {[Type |-> CmdDeletePattern, Payload |-> [name |-> "a.lua"]],
     [Type |-> CmdRunPattern, Payload |-> [name |-> "a.lua"]],
     [Type |-> CmdRunPattern, Payload |-> [name |-> "b.lua"]]}

\* The engine running patterns whose file may have been removed meanwhile, with
\* the listener of the pattern events.
MissingNext ==
    \/ \E cmd \in MissingCommands : TransportPush(cmd)
    \/ HandleDeletePattern
    \/ HandleRunPattern
    \/ OrchestratorBroadcast
    \/ RunLoopRecv
    \/ RunLoopScriptDone
    \/ RunLoopTimeout
    \/ \E id \in 1..Len(scripts) : ScriptStart(id)
    \/ \E id \in 1..Len(scripts) : ScriptFinish(id)
    \/ \E id \in 1..Len(scripts) : ScriptCancelled(id)
    \/ ListenPatternChanged

\* The run loop, every script goroutine and the listener are goroutines of
\* their own.  A script whose file is missing returns at once (L.DoFile fails);
\* a script that runs may run for ever.  time.After ends the run loop's wait.
MissingFairness ==
    /\ WF_vars(RunLoopRecv)
    /\ WF_vars(RunLoopScriptDone \/ RunLoopTimeout)
    /\ WF_vars(ListenPatternChanged)
    /\ \A id \in 1..MaxCmds :
           /\ WF_vars(id \in 1..Len(scripts) /\ ScriptStart(id))
           /\ WF_vars(/\ id \in 1..Len(scripts)
                      /\ scripts[id].failed
                      /\ (ScriptFinish(id) \/ ScriptCancelled(id)))

MissingSpec == Init /\ [][MissingNext]_vars /\ MissingFairness

\* A pattern and a colour change.
PreemptCommands ==
    {[Type |-> CmdRunPattern, Payload |-> [name |-> "a.lua"]],
     [Type |-> CmdSetColor, Payload |-> [r |-> 255, g |-> 0, b |-> 0]]}

\* A script that enqueues frames while the orchestrator handles a set-color.
PreemptNext ==
    \/ \E cmd \in PreemptCommands : Len(pushed) < MaxLinkCmds /\ TransportPush(cmd)
    \/ HandleRunPattern
    \/ HandleSetColor
    \/ RunLoopRecv
    \/ RunLoopScriptDone
    \/ RunLoopTimeout
    \/ \E id \in 1..Len(scripts) : ScriptStart(id)
    \/ \E id \in 1..Len(scripts) : ScriptFinish(id)
    \/ \E id \in 1..Len(scripts) : ScriptCancelled(id)
    \/ \E id \in 1..Len(scripts), payload \in ScriptFrames : ScriptWriteBy(id, payload)

PreemptSpec == Init /\ [][PreemptNext]_vars

\* ------------------------------------------------------------------ properties
\* The name a pattern-changed event carries, under whichever key it carries it.
EventPatternName(e) ==
    IF "running" \in DOMAIN e.Payload THEN e.Payload.running
    ELSE IF "pattern" \in DOMAIN e.Payload THEN e.Payload.pattern
    ELSE ""

IsPatternStart(e) == e.Type = PatternChangedEvent /\ EventPatternName(e) # ""
IsPatternEnd(e) == e.Type = PatternChangedEvent /\ EventPatternName(e) = ""

Running == {id \in 1..Len(scripts) : scripts[id].status = "running"}

\* The step passes a command of this type to handleCommand.
StepHandles(type) ==
    /\ Len(handled') = Len(handled) + 1
    /\ Head(commandChannel).Type = type

\* The step calls Engine.StopCurrentPattern.
StepCallsStop == stopCalls' = stopCalls + 1

\* C1: at most one script executes at any instant: between any two pattern-changed
\* events that carry a non-empty name there is one that carries the empty name.
C1_AtMostOneScript ==
    \A i, j \in 1..Len(busLog) :
        (i < j /\ IsPatternStart(busLog[i]) /\ IsPatternStart(busLog[j]))
            => \E k \in (i + 1)..(j - 1) : IsPatternEnd(busLog[k])

\* C2: a stop-pattern command handled while a script is running is never discarded:
\* its stop is put on the Script Worker's command channel, however full it is.
C2_StopNeverDiscarded ==
    [][(StepHandles(CmdStopPattern) /\ Running # {})
           => cmdChan' = Append(cmdChan, StopCmd)]_vars

C5_EndBeforePowerChanged ==
    [][(StepHandles(CmdSetPower) /\ Head(commandChannel).Payload.isOn # state.Power)
           => \A id \in Running :
                  /\ scripts'[id].endIdx # 0
                  /\ scripts'[id].endIdx < Len(busLog')]_vars

\* C7: every script publishes its name in a pattern-changed event under the field
\* running before it runs, and one with running empty when it exits, in this order.
C7_Lifecycle ==
    \A id \in 1..Len(scripts) :
        /\ scripts[id].status \in {"running", "done"}
            => /\ busLog[scripts[id].startIdx].Type = PatternChangedEvent
               /\ "running" \in DOMAIN busLog[scripts[id].startIdx].Payload
               /\ busLog[scripts[id].startIdx].Payload.running = scripts[id].name
        /\ scripts[id].status = "done"
            => /\ scripts[id].startIdx < scripts[id].endIdx
               /\ busLog[scripts[id].endIdx].Type = PatternChangedEvent
               /\ "running" \in DOMAIN busLog[scripts[id].endIdx].Payload
               /\ busLog[scripts[id].endIdx].Payload.running = ""

\* C10: the commands handled are a prefix of the commands pushed: handled in the
\* order pushed, each once, and what is pushed and not yet handled waits in the
\* channel.
C10_Fifo ==
    /\ Len(handled) <= Len(pushed)
    /\ handled = SubSeq(pushed, 1, Len(handled))
    /\ handled \o commandChannel = pushed

\* C10 witness: commands have been handled while the channel is full behind them.
C10_Witness ==
    /\ Len(handled) >= 1
    /\ Len(commandChannel) = CommandChanCap
    /\ handled[1] # commandChannel[1]

\* The step is one of Agent.listenEvents: it takes the event at the head of the
\* listener's channel.
StepListens == agentSub # <<>> /\ agentSub' = Tail(agentSub)

IsLinkEvent(e, up) == e.Type = DeviceConnectedEvent /\ e.Payload.connected = up

\* The link events published before position u of the bus.
LinkEventsBefore(u) == {d \in 1..(u - 1) : busLog[d].Type = DeviceConnectedEvent}

\* Position p holds the last link event published before position u.
LastLinkEventBefore(p, u) ==
    /\ p \in LinkEventsBefore(u)
    /\ \A k \in LinkEventsBefore(u) : k <= p

\* The link-changed event at position u is an up that follows the down at position
\* d, with which an established link went down.
UpFollowsDown(d, u) ==
    /\ IsLinkEvent(busLog[u], TRUE)
    /\ LastLinkEventBefore(d, u)
    /\ IsLinkEvent(busLog[d], FALSE)
    /\ \E p \in 1..(d - 1) : LastLinkEventBefore(p, d) /\ IsLinkEvent(busLog[p], TRUE)

\* The scripts that were active when the link went down at d and have not ended
\* before it came up at u.
ActiveAcross(d, u) ==
    {id \in 1..Len(scripts) :
        /\ scripts[id].startIdx # 0
        /\ scripts[id].startIdx < d
        /\ (scripts[id].endIdx = 0 \/ scripts[id].endIdx > u)}

\* C6: when the listener handles a link-changed(up=true) that follows a
\* link-changed(up=false) during which a script was active, it sends run-pattern
\* for that script's name to the Script Worker.
C6_ResumeOnReconnect ==
    [][(StepListens /\ Head(agentSub).Type = DeviceConnectedEvent)
           => \A d \in 1..Len(busLog) :
                  (UpFollowsDown(d, Head(agentSub).idx)
                       /\ ActiveAcross(d, Head(agentSub).idx) # {})
                      => \E id \in ActiveAcross(d, Head(agentSub).idx) :
                             cmdChan' = Append(cmdChan, RunFile(scripts[id].name))]_vars

\* C8: once the listener has processed a pattern-changed event, runningPattern is
\* the name the event carries: the script's name after its start event, empty
\* after its end event.
C8_RunningPatternTracksScript ==
    [][(StepListens /\ Head(agentSub).Type = PatternChangedEvent)
           => state'.RunningPattern = EventPatternName(Head(agentSub))]_vars

\* C9: when the listener processes the end event of a script, it publishes a
\* state-changed snapshot with power, colour, brightness and speed.
C9_SnapshotOnPatternEnd ==
    [][(StepListens /\ IsPatternEnd(Head(agentSub)))
           => /\ Len(busLog') = Len(busLog) + 1
              /\ busLog'[Len(busLog')].Type = StateChangedEvent
              /\ {"isOn", "r", "g", "b", "brightness", "speed"}
                     \subseteq DOMAIN busLog'[Len(busLog')].Payload]_vars

\* ------------------------------------------------------------------ write path
\* The frames written in the window of one second that opens at t: the
\* RateLimit token periods t <= at < t + RateLimit.
WritesInWindow(t) == {i \in 1..Len(written) : written[i].at \in t..(t + RateLimit - 1)}

\* The step is a call of Controller.Write.
StepWrites == Len(writeLog') = Len(writeLog) + 1

\* The frame passed to the call of Controller.Write the step makes, as queued.
WrittenFrame == [payload |-> writeLog'[Len(writeLog')], seq |-> Len(writeLog')]

\* C11: every frame written to the characteristic is a frame that was passed to
\* Controller.Write, and two written frames are written in the order of their
\* calls of Controller.Write.
C11_WritesKeepEnqueueOrder ==
    /\ \A i \in 1..Len(written) :
           /\ written[i].seq \in 1..Len(writeLog)
           /\ writeLog[written[i].seq] = written[i].payload
    /\ \A i, j \in 1..Len(written) : i < j => written[i].seq < written[j].seq

\* Two distinct frames were written, with a frame enqueued between them that was
\* not written.
C11_Witness ==
    /\ Len(written) >= 2
    /\ written[1].payload # written[2].payload
    /\ written[2].seq > written[1].seq + 1

\* C12: in every window of one second at most RateLimit + RateBurst frames are
\* written to the characteristic.
C12_RateLimited ==
    \A t \in 0..MaxTime : Cardinality(WritesInWindow(t)) <= RateLimit + RateBurst

\* A window of one second in which RateLimit + RateBurst frames were written.
C12_Witness ==
    \E t \in 0..MaxTime : Cardinality(WritesInWindow(t)) = RateLimit + RateBurst

\* C13: a call of Controller.Write is possible whatever the queue holds; it
\* leaves a full queue (2 x RateBurst frames) as it is and appends the frame to
\* the tail of a queue that is not full.
C13_WriteNeverBlocks ==
    [][StepWrites =>
          bleCommandChan' = IF Len(bleCommandChan) >= WriteQueueCap
                            THEN bleCommandChan
                            ELSE Append(bleCommandChan, WrittenFrame)]_vars

\* The queue is full and the last call of Controller.Write is not in it: its
\* frame was discarded.
C13_Witness ==
    /\ Len(bleCommandChan) = WriteQueueCap
    /\ bleCommandChan[Len(bleCommandChan)].seq < Len(writeLog)

\* C14: while the link is not Ready, a frame the writer loop has taken from the
\* queue leaves its hands only by being written to the characteristic.
C14_QueuePreservedWhileDown ==
    [][(writer.pc = "write" /\ writer'.pc = "recv" /\ blePc # "ready")
           => Len(written') = Len(written) + 1]_vars

\* ------------------------------------------------------------------ link events
\* The step publishes one event on the bus.
StepPublishes == Len(busLog') = Len(busLog) + 1

\* The event the step publishes.
Published == busLog'[Len(busLog')]

\* The positions of the link events on the bus.
LinkEvents == {k \in 1..Len(busLog) : busLog[k].Type = DeviceConnectedEvent}

\* The last link event on the bus says up.
LastLinkEventIsUp ==
    \E k \in LinkEvents : IsLinkEvent(busLog[k], TRUE) /\ \A j \in LinkEvents : j <= k

\* C15: the step that publishes link-changed(up=true) is the supervisor's entry
\* into Ready, with the write characteristic of the connection discovered.
C15_UpOnlyOnReady ==
    [][(StepPublishes /\ IsLinkEvent(Published, TRUE))
           => (blePc' = "ready" /\ characteristic' = sessions')]_vars

\* C16: whenever the supervisor is back at scanning, the last link-changed event
\* on the bus is not an up: every up is followed by a down before the rescan.
C16_DownBeforeRescan ==
    blePc \in {"scan", "scanning"} => ~LastLinkEventIsUp

\* C17: a disconnect signalled in Ready (a failed write or a failed heartbeat) of
\* a session that is not the last one the model opens leads to Ready of the next
\* session, with link-changed(up=true) the last link event published.
C17_LinkHeals ==
    \A n \in 1..(MaxSessions - 1) :
        (blePc = "ready" /\ sessions = n /\ disconnectChan = 1)
            ~> (blePc = "ready" /\ sessions = n + 1 /\ LastLinkEventIsUp)

\* Ready is reached again after a disconnect was signalled and handled.
C17_Witness ==
    /\ blePc = "ready"
    /\ sessions = 2
    /\ \E k \in LinkEvents : IsLinkEvent(busLog[k], FALSE) /\ k > 1
    /\ LastLinkEventIsUp

\* A buffer holds its events in the order they were published.
InPublishOrder(sub) == \A i, j \in 1..Len(sub) : i < j => sub[i].idx < sub[j].idx

\* What Publish makes of a subscriber's buffer: the event at its tail, or the
\* buffer as it was when it held SubCap events.
Delivered(sub, event) == IF Len(sub) >= SubCap THEN sub ELSE Append(sub, event)

\* C18: a publish step appends the event to the buffer of every subscriber of
\* its kind that is not full and leaves a full buffer as it is, each buffer
\* judged by itself; every buffer holds its events in publish order.
C18_PublishNeverBlocks ==
    /\ [][StepPublishes =>
             /\ AgentSubscribed(Published) => agentSub' = Delivered(agentSub, Published)
             /\ ServerSubscribed(Published) => serverSub' = Delivered(serverSub, Published)]_vars
    /\ [](InPublishOrder(agentSub) /\ InPublishOrder(serverSub))

\* The server's buffer was full when an event was published: the agent's
\* listener holds the event, the server's buffer holds only older ones.
C18_Witness ==
    /\ Len(serverSub) = SubCap
    /\ \E i \in 1..Len(agentSub) :
           \A j \in 1..Len(serverSub) : serverSub[j].idx < agentSub[i].idx

\* ------------------------------------------------------------------ State Store
\* The elements of a sequence.
Range(seq) == {seq[i] : i \in 1..Len(seq)}

\* The colour the State Store starts with.
InitialColor == <<0, 0, 0>>

\* C19: the colour triple of every snapshot returned by State.Clone is the
\* initial one or the triple passed to one call of State.SetColor.
C19_NoTornSnapshot ==
    \A i \in 1..Len(snapshots) : snapshots[i] \in Range(colorWrites) \cup {InitialColor}

\* Two different colours were written and a snapshot returned one of them.
C19_Witness ==
    /\ Cardinality(Range(colorWrites)) >= 2
    /\ \E i \in 1..Len(snapshots) : snapshots[i] \in Range(colorWrites)

\* C20: before any command is handled the State Store holds power off, colour
\* (255,255,255), brightness 100 and speed 50, and the priming device_state
\* message of a WebSocket client carries these values.
C20_StartupDefaults ==
    handled = <<>> =>
        /\ state.Power = FALSE
        /\ <<state.ColorR, state.ColorG, state.ColorB>> = <<255, 255, 255>>
        /\ state.Brightness = 100
        /\ state.Speed = 50
        /\ PrimingDeviceState(state) =
               [isOn |-> FALSE, r |-> 255, g |-> 255, b |-> 255, hex |-> "#FFFFFF",
                brightness |-> 100, speed |-> 50]

\* ------------------------------------------------------------------ command payloads
\* The command the step passes to handleCommand.
HandledCommand == Head(commandChannel)

\* C21: a set-brightness leaves the State Store's brightness in 1..100, a
\* set-speed leaves its speed in 0..100 and a set-color leaves each colour
\* component in 0..255, whatever number the payload carries.
C21_FieldsInRange ==
    [][/\ StepHandles(CmdSetBrightness) => state'.Brightness \in 1..100
       /\ StepHandles(CmdSetSpeed) => state'.Speed \in 0..100
       /\ StepHandles(CmdSetColor)
           => /\ state'.ColorR \in 0..255
              /\ state'.ColorG \in 0..255
              /\ state'.ColorB \in 0..255]_vars

\* The step handles a command of a known kind whose payload lacks a field, has a
\* field of the wrong JSON type or carries a number outside the field's range.
StepHandlesInvalid ==
    /\ Len(handled') = Len(handled) + 1
    /\ HandledCommand \in InvalidInputs

\* C22: handling a command with an invalid payload leaves the State Store
\* unchanged, enqueues no BLE frame, sends no stop to the Script Worker and
\* publishes no event.
C22_InvalidDropped ==
    [][StepHandlesInvalid
           => /\ state' = state
              /\ ~StepWrites
              /\ bleCommandChan' = bleCommandChan
              /\ ~StepCallsStop
              /\ cmdChan' = cmdChan
              /\ busLog' = busLog]_vars

\* One of the cases of handleCommand, the default one included.
HandleCommand ==
    \/ HandleSetPower
    \/ HandleSetColor
    \/ HandleSetBrightness
    \/ HandleSetSpeed
    \/ HandleSetHardwarePattern
    \/ HandleRunPattern
    \/ HandleStopPattern
    \/ HandleAddSchedule
    \/ HandleRemoveSchedule
    \/ HandleGetPatternCode
    \/ HandleSavePatternCode
    \/ HandleDeletePattern
    \/ HandleUnknownCommand

\* The orchestrator waits in Engine.RunPattern for room on the engine's channel.
WaitsForEngine ==
    /\ HandledCommand.Type = CmdRunPattern
    /\ RunPatternBlocks(cmdChan, PayloadGet(HandledCommand.Payload, "name", ""))

LoopsStopped ==
    /\ ~orchestrator
    /\ blePc = "stopped"
    /\ writer.pc = "stopped"

C25_ScriptTokenNested ==
    ctxDone => \A id \in Running : scripts[id].cancelled

\* ------------------------------------------------------------------ scheduler
\* The last entry of the scheduler's history, written by the step.
SchedStep == schedLog'[Len(schedLog')]

\* The step is the firing of a cron entry.
StepFires == Len(schedLog') = Len(schedLog) + 1 /\ SchedStep.op = "fire"

\* C26: a firing cron entry only enqueues a command on the orchestrator's
\* channel: it calls neither the BLE controller nor the engine, and so sends no
\* stop to a script on its own.
C26_CronOnlyEnqueues ==
    [][StepFires
           => /\ bleState' = bleState
              /\ ~StepWrites
              /\ ~StepCallsStop
              /\ cmdChan' = cmdChan
              /\ pendingRuns' = pendingRuns]_vars

\* The command-derived fields of the State Store.
CommandFields(st) ==
    <<st.Power, st.ColorR, st.ColorG, st.ColorB, st.Brightness, st.Speed>>

Remainder(text) == Join(SubSeq(text, 3, Len(text)), "")

\* The step commands the power: the controller is told the value and the power
\* frame is enqueued.
StepSetsPower(isOn) ==
    /\ StepWrites
    /\ WrittenFrame.payload = PowerFrame(isOn)
    /\ bleState'.IsOn = isOn
    /\ pendingRuns' = pendingRuns

\* The step starts this engine command and nothing else.
StepRuns(cmd) ==
    /\ pendingRuns' = Append(pendingRuns, cmd)
    /\ ~StepWrites
    /\ bleState' = bleState

\* The step does nothing but record the firing.
StepNoAction ==
    /\ pendingRuns' = pendingRuns
    /\ ~StepWrites
    /\ bleState' = bleState
    /\ cmdChan' = cmdChan

\* C28: a fired entry is dispatched by the first word of its command text:
\* `power on` and `power off` command the power, `pattern <file>` runs the file,
\* `lua <source>` runs the remainder of the line, and any other text does
\* nothing.
C28_DispatchByFirstToken ==
    [][StepFires =>
         LET text == SchedStep.command
         IN IF text = <<"power", " ", "on">> THEN StepSetsPower(TRUE)
            ELSE IF text = <<"power", " ", "off">> THEN StepSetsPower(FALSE)
            ELSE IF Len(text) = 3 /\ text[1] = "pattern"
                 THEN StepRuns(RunFile(text[3]))
            ELSE IF Len(text) >= 3 /\ text[1] = "lua"
                 THEN StepRuns(RunString(Remainder(text)))
            ELSE StepNoAction]_vars

\* The step is a call of Scheduler.Add or Scheduler.Remove.
StepMutatesSchedules ==
    Len(schedLog') = Len(schedLog) + 1 /\ SchedStep.op \in {"add", "remove"}

\* The cron evaluator, the store and the file hold the same id -> entry mapping.
SchedulesAgree ==
    /\ cronEntries = store
    /\ schedulesFile.exists
    /\ DOMAIN schedulesFile.data = {Itoa(id) : id \in DOMAIN store}
    /\ \A id \in DOMAIN store : schedulesFile.data[Itoa(id)] = store[id]

ScheduleEntries == {[Spec |-> spec, Command |-> command] :
                        spec \in CronSpecs, command \in CommandTexts}

\* How many ids of the mapping hold this entry.
Count(mp, entry) == Cardinality({id \in DOMAIN mp : mp[id] = entry})

\* The two mappings hold the same entries, each as many times.
SameEntries(mp1, mp2) == \A entry \in ScheduleEntries : Count(mp1, entry) = Count(mp2, entry)

\* The step is a start of the process, which loads the schedules file.
StepLoads == Len(schedLog') = Len(schedLog) + 1 /\ SchedStep.op = "load"

BurstTypes == <<"ble_status", "device_state", "pattern_status", "pattern_list",
                "schedule_list">>

C32_NeverWaitsForClient ==
    pendingBroadcast # NoMessage => hub.pc = "select"

\* The events on the bus that the server's listener subscribes to.
ServerEvents == {k \in 1..Len(busLog) : ServerSubscribed(busLog[k])}

\* The bus positions of the events the hub has written to the client.
BroadcastTo(c) ==
    {sockets[c].received[i].msg.idx :
        i \in {j \in 1..Len(sockets[c].received) : sockets[c].received[j].from = "hub"}}

\* Nothing is on its way to the clients: the listener's buffer and hand are
\* empty and the hub is at its select.
HubQuiet == serverSub = <<>> /\ serverHand = NoMessage /\ hub.pc = "select"

\* C38: a registered client whose writes have not failed has received, once
\* nothing is on its way any more, every event published after the snapshot of
\* its priming burst.
C38_NoEventMissed ==
    \A c \in ClientIds :
        (sockets[c].pc = "serving" /\ ~sockets[c].failed /\ HubQuiet)
            => \A k \in ServerEvents : k > sockets[c].snap => k \in BroadcastTo(c)

\* ------------------------------------------------------------------ MQTT colour payloads
\* The step is Client.handleColor.
StepHandlesColor == Len(mqttLog') = Len(mqttLog) + 1

\* The payload the step handles.
HandledPayload == mqttLog'[Len(mqttLog')]

\* C33: a payload in one of the three forms (#RRGGBB, r,g,b, JSON object) sends
\* a set-color with exactly the components it states, and a payload in none of
\* the forms sends no command.
C33_ColorForms ==
    [][StepHandlesColor
           => IF HandledPayload.form = "none"
              THEN commandChannel' = commandChannel
              ELSE commandChannel' = Append(commandChannel,
                       ColorCommand(HandledPayload.color[1], HandledPayload.color[2],
                                    HandledPayload.color[3]))]_vars

\* ------------------------------------------------------------------ link down in the State Store
\* The step is the listener consuming a link-changed(up=false).
StepConsumesDown ==
    /\ agentSub # <<>>
    /\ IsLinkEvent(Head(agentSub), FALSE)
    /\ agentSub' = Tail(agentSub)

\* C34: when the listener consumes a link-changed(up=false), the State Store
\* changes in linkUp and rssi only: linkUp becomes false, rssi becomes 0, and
\* power, colour, brightness, speed and runningPattern keep their values.
C34_DownChangesLinkOnly ==
    [][StepConsumesDown
           => state' = [state EXCEPT !.IsConnected = FALSE, !.RSSI = 0]]_vars

\* The link went up and down again, both events are consumed, and the State
\* Store still holds the power and the colour that commands set.
C34_Witness ==
    /\ agentSub = <<>>
    /\ \E k \in LinkEvents : IsLinkEvent(busLog[k], TRUE)
    /\ ~LastLinkEventIsUp
    /\ ~state.IsConnected /\ state.RSSI = 0
    /\ state.Power /\ state.ColorR = 255

\* ------------------------------------------------------------------ pattern names
\* The kinds of command that name a pattern file.
FileKinds == {CmdRunPattern, CmdGetPatternCode, CmdSavePatternCode, CmdDeletePattern}

\* The step handles a command that names a pattern file.
StepHandlesFile ==
    /\ Len(handled') = Len(handled) + 1
    /\ HandledCommand.Type \in FileKinds

\* The name has a path separator or `..` in it, or does not end in .lua.
BadName(name) ==
    \/ Contains(Chars(name), <<"/">>)
    \/ Contains(Chars(name), <<".", ".">>)
    \/ ~HasSuffix(Chars(name), Chars(".lua"))

\* The path names a file directly inside the patterns directory.
InsidePatternsDir(path) ==
    /\ HasPrefix(path, PatternsDir \o <<"/">>)
    /\ LET file == SubSeq(path, Len(PatternsDir) + 2, Len(path))
       IN file # <<>> /\ ~Contains(file, <<"/">>) /\ ~Contains(file, <<".", ".">>)

\* C35: a command whose pattern name has a path separator or `..` in it, or
\* does not end in .lua, is rejected: it reads, writes and removes no file,
\* sends nothing to the Script Worker and notifies no client; and every path
\* used on the patterns directory or sent to the Script Worker names a file
\* directly inside the directory.
C35_NamesValidated ==
    /\ [][(StepHandlesFile /\ BadName(HandledCommand.Payload.name))
              => /\ fileOps' = fileOps
                 /\ patternFiles' = patternFiles
                 /\ cmdChan' = cmdChan
                 /\ pendingBroadcast' = pendingBroadcast]_vars
    /\ [](/\ \A i \in 1..Len(fileOps) : InsidePatternsDir(fileOps[i].path)
          /\ \A i \in 1..Len(cmdChan) :
                 cmdChan[i].kind = cmdRunFile => InsidePatternsDir(cmdChan[i].code))

\* ------------------------------------------------------------------ missing pattern file
\* Script id runs a file that was not there when L.DoFile opened it.
FileMissing(id) ==
    id \in 1..Len(scripts) /\ scripts[id].failed /\ scripts[id].status = "running"

\* Script id has exited and published the end-of-pattern event, and the State
\* Store names no running pattern.
EndedAndCleared(id) ==
    /\ id \in 1..Len(scripts)
    /\ scripts[id].status = "done"
    /\ busLog[scripts[id].endIdx].Type = PatternChangedEvent
    /\ EventPatternName(busLog[scripts[id].endIdx]) = ""
    /\ state.RunningPattern = ""

ColorEvents == {k \in 1..Len(busLog) : busLog[k].Type = ColorChangedEvent}

\* The first set-color, which changes the colour of the State Store and so
\* calls StopCurrentPattern, was handled while script id was running.
Preempted(id) ==
    /\ ColorEvents # {}
    /\ LET k == CHOOSE c \in ColorEvents : \A o \in ColorEvents : c <= o
       IN /\ scripts[id].startIdx \in 1..(k - 1)
          /\ scripts[id].endIdx = 0 \/ scripts[id].endIdx > k

\* The step is a Controller.Write of script id.
StepWritesBy(id) == scripts'[id].lastWrite # scripts[id].lastWrite

\* C37: once a set-color has pre-empted a running script, the script enqueues
\* no frame any more, so that the command's colour frame stays the last colour
\* frame on the write queue.
C37_CommandFrameLast ==
    [][\A id \in 1..Len(scripts) : StepWritesBy(id) => ~Preempted(id)]_vars

\* The link-changed(up=false) events on the bus.
DownEvents == {k \in LinkEvents : IsLinkEvent(busLog[k], FALSE)}

\* The Ready loop consumes the disconnect signal and leaves Ready.
StepConsumesSignal == blePc = "ready" /\ disconnectChan = 1 /\ blePc' # "ready"

\* C39: whenever the Ready loop consumes a disconnect signal, the signal was
\* raised by a failed write or heartbeat read on the characteristic of the
\* session that is ending, and the step publishes exactly one
\* link-changed(up=false) for that session.
C39_SignalOfThisSession ==
    [][StepConsumesSignal =>
           /\ signalOf = sessions
           /\ LastLinkEventIsUp
           /\ Cardinality(DownEvents') = Cardinality(DownEvents) + 1]_vars

\* The writer's write reaches the device.
StepWritesFrame == Len(written') = Len(written) + 1

\* C40: the stored characteristic is empty whenever the supervisor is not in
\* Ready, and a frame is written only while the supervisor is in Ready and the
\* stored characteristic is the one of the current session.
C40_WritesOnlyInReady ==
    /\ [](blePc # "ready" => characteristic = 0)
    /\ [][StepWritesFrame => (blePc = "ready" /\ characteristic = sessions)]_vars
====
